---- MODULE Spec2Model ----
(***************************************************************************)
(* Login rate limiter (rate-limits.json) and credential / session store    *)
(* (users.json, sessions.json) of the admin area, the guard that admits a  *)
(* request to it (adminMiddleware.ts) and the delete-content endpoint      *)
(* behind the guard.                                                       *)
(*                                                                         *)
(* Timestamps are integer milliseconds since the epoch.  The code stores   *)
(* them as ISO-8601 strings (Date.toISOString) and parses them back with   *)
(* new Date(s); toISOString keeps the millisecond, so the round trip is    *)
(* exact and every comparison in the code is a comparison of these         *)
(* integers.                                                               *)
(***************************************************************************)
EXTENDS Integers, Sequences, FiniteSets, TLC

VARIABLES
    now,         \* the wall clock, in ms
    rateLimits,  \* contents of data/rate-limits.json: a sequence of entries
    users,       \* contents of data/users.json
    sessions,    \* contents of data/sessions.json
    last,        \* the last call: its name, arguments, time, result, and the
                 \* collection it read (history)
    streak,      \* per address: the recordFailedAttempt calls made since the
                 \* address last had no entry and the time of the first of
                 \* them, while they are within WINDOW_MS of it (history)
    blockT,      \* per address: the latest blockedUntil that
                 \* recordFailedAttempt returned since the last successful
                 \* login, while it is in the future; else 0 (history)
    expired,     \* addresses whose entry the last isBlocked on them pruned
                 \* (history)
    files,       \* the files under src/content/blog, by path relative to it
    revoked,     \* tokens given to removeSession or logout for which no
                 \* session was created since, while they still verify
                 \* (history)
    failures,    \* per address: the times of its latest recordFailedAttempt
                 \* calls since its last recordSuccessfulLogin, while they
                 \* are within WINDOW_MS of the clock (history)
    shadow,      \* contents that rate-limits.json would have had no
                 \* cleanupOldEntries call been made (history)
    procs        \* per request in flight: the operation, its argument, and
                 \* the collection it read and has yet to write back

vars ==
    <<now, rateLimits, users, sessions, last, streak, blockT, expired, files,
      revoked, failures, shadow, procs>>

(***************************************************************************)
(* Program constants                                                       *)
(***************************************************************************)
MAX_ATTEMPTS == 5
WINDOW_MS == 15 * 60 * 1000
BLOCK_DURATION_MS == 30 * 60 * 1000

(***************************************************************************)
(* Bounds of the model                                                     *)
(***************************************************************************)
\* the clock of the limiter runs over MaxWindows windows ...
MaxWindows == 2
\* ... and within each, over the first MaxFine milliseconds after its start
MaxFine == 1
\* recordFailedAttempt is not called on an entry with this many attempts
MaxBurst == 6

IPs == {"10.0.0.5", "10.0.0.6"}

\* The addresses that issue calls at time t.  The code treats all addresses
\* alike, so one address is followed through the whole run; the others issue
\* their calls during the first MaxFine milliseconds, after which their
\* entries only age (and are still read, kept or dropped by every call).
Subject == "10.0.0.5"
Callers(t) == {ip \in IPs : ip = Subject \/ t <= MaxFine}

LimiterInstants ==
    {w * WINDOW_MS + f : w \in 0..MaxWindows, f \in 0..MaxFine}

(***************************************************************************)
(* Helpers                                                                 *)
(***************************************************************************)
\* Math.ceil(a / b) for a >= 0, b > 0
CeilDiv(a, b) == (a + b - 1) \div b

\* entry.blockedUntil is an optional field
HasBlock(e) == "blockedUntil" \in DOMAIN e

Entry(ip, attempts, firstAttempt, lastAttempt) ==
    [ip |-> ip, attempts |-> attempts, firstAttempt |-> firstAttempt,
     lastAttempt |-> lastAttempt]

BlockedEntry(ip, attempts, firstAttempt, lastAttempt, blockedUntil) ==
    [ip |-> ip, attempts |-> attempts, firstAttempt |-> firstAttempt,
     lastAttempt |-> lastAttempt, blockedUntil |-> blockedUntil]

\* Array.prototype.findIndex over e.ip === ip, 1-based; 0 when there is none
FindIndex(data, ip) ==
    IF \E i \in 1..Len(data) : data[i].ip = ip
    THEN CHOOSE i \in 1..Len(data) :
            /\ data[i].ip = ip
            /\ \A j \in 1..(i - 1) : data[j].ip # ip
    ELSE 0

HasEntry(data, ip) == FindIndex(data, ip) # 0

\* rateLimits.find(e => e.ip === ip), when there is one
FindEntry(data, ip) == data[FindIndex(data, ip)]

\* rateLimits.filter(e => e.ip !== ip)
WithoutIp(data, ip) == SelectSeq(data, LAMBDA e : e.ip # ip)

(***************************************************************************)
(* isBlocked                                                               *)
(***************************************************************************)
\* a variant that rounds the remaining minutes down (Math.floor)
IsBlockedRetFloor(data, ip, t) ==
    IF ~HasEntry(data, ip) \/ ~HasBlock(FindEntry(data, ip))
    THEN [blocked |-> FALSE]
    ELSE LET blockedUntil == FindEntry(data, ip).blockedUntil
         IN  IF t < blockedUntil
             THEN [blocked |-> TRUE,
                   remainingTime |-> (blockedUntil - t) \div (1000 * 60)]
             ELSE [blocked |-> FALSE]

\* a variant that never prunes an expired block
IsBlockedDataNoPrune(data, ip, t) == data

IsBlockedRet(data, ip, t) ==
    IF ~HasEntry(data, ip) \/ ~HasBlock(FindEntry(data, ip))
    THEN [blocked |-> FALSE]
    ELSE LET blockedUntil == FindEntry(data, ip).blockedUntil
         IN  IF t < blockedUntil
             THEN [blocked |-> TRUE,
                   remainingTime |-> CeilDiv(blockedUntil - t, 1000 * 60)]
             ELSE [blocked |-> FALSE]

IsBlockedData(data, ip, t) ==
    IF ~HasEntry(data, ip) \/ ~HasBlock(FindEntry(data, ip))
    THEN data
    ELSE IF t < FindEntry(data, ip).blockedUntil
         THEN data
         ELSE WithoutIp(data, ip)

(***************************************************************************)
(* recordFailedAttempt                                                     *)
(***************************************************************************)
\* a variant that blocks one failure late (attempts > MAX_ATTEMPTS)
RecordFailedEntryLate(data, ip, t) ==
    IF ~HasEntry(data, ip)
    THEN Entry(ip, 1, t, t)
    ELSE LET entry == FindEntry(data, ip)
         IN  IF entry.firstAttempt < t - WINDOW_MS
             THEN Entry(entry.ip, 1, t, t)
             ELSE IF entry.attempts + 1 > MAX_ATTEMPTS
                  THEN BlockedEntry(entry.ip, entry.attempts + 1,
                                    entry.firstAttempt, t,
                                    t + BLOCK_DURATION_MS)
                  ELSE Entry(entry.ip, entry.attempts + 1,
                             entry.firstAttempt, t)

\* a variant that starts the new window but carries the old count into it
RecordFailedEntryCarry(data, ip, t) ==
    IF ~HasEntry(data, ip)
    THEN Entry(ip, 1, t, t)
    ELSE LET entry == FindEntry(data, ip)
         IN  IF entry.firstAttempt < t - WINDOW_MS
             THEN Entry(entry.ip, entry.attempts + 1, t, t)
             ELSE IF entry.attempts + 1 >= MAX_ATTEMPTS
                  THEN BlockedEntry(entry.ip, entry.attempts + 1,
                                    entry.firstAttempt, t,
                                    t + BLOCK_DURATION_MS)
                  ELSE Entry(entry.ip, entry.attempts + 1,
                             entry.firstAttempt, t)

\* a variant whose new window keeps the block of the old one
RecordFailedEntryKeepsBlock(data, ip, t) ==
    IF ~HasEntry(data, ip)
    THEN Entry(ip, 1, t, t)
    ELSE LET entry == FindEntry(data, ip)
         IN  IF entry.firstAttempt < t - WINDOW_MS
             THEN IF HasBlock(entry)
                  THEN BlockedEntry(entry.ip, 1, t, t, entry.blockedUntil)
                  ELSE Entry(entry.ip, 1, t, t)
             ELSE IF entry.attempts + 1 >= MAX_ATTEMPTS
                  THEN BlockedEntry(entry.ip, entry.attempts + 1,
                                    entry.firstAttempt, t,
                                    t + BLOCK_DURATION_MS)
                  ELSE Entry(entry.ip, entry.attempts + 1,
                             entry.firstAttempt, t)

\* the entry of ip after the call
RecordFailedEntry(data, ip, t) ==
    IF ~HasEntry(data, ip)
    THEN Entry(ip, 1, t, t)
    ELSE LET entry == FindEntry(data, ip)
             windowStart == t - WINDOW_MS
         IN  IF entry.firstAttempt < windowStart
             THEN Entry(entry.ip, 1, t, t)
             ELSE IF entry.attempts + 1 >= MAX_ATTEMPTS
                  THEN BlockedEntry(entry.ip, entry.attempts + 1,
                                    entry.firstAttempt, t,
                                    t + BLOCK_DURATION_MS)
                  ELSE IF HasBlock(entry)
                       THEN BlockedEntry(entry.ip, entry.attempts + 1,
                                         entry.firstAttempt, t,
                                         entry.blockedUntil)
                       ELSE Entry(entry.ip, entry.attempts + 1,
                                  entry.firstAttempt, t)

\* a variant that pushes the entry without looking for one of the address
RecordFailedDataPush(data, ip, t) ==
    Append(data, RecordFailedEntry(data, ip, t))

RecordFailedData(data, ip, t) ==
    IF ~HasEntry(data, ip)
    THEN Append(data, RecordFailedEntry(data, ip, t))
    ELSE [data EXCEPT ![FindIndex(data, ip)] = RecordFailedEntry(data, ip, t)]

RecordFailedRet(data, ip, t) ==
    LET entry == RecordFailedEntry(data, ip, t)
    IN  IF HasBlock(entry)
        THEN [blocked |-> TRUE, blockedUntil |-> entry.blockedUntil]
        ELSE [blocked |-> FALSE, attemptsLeft |-> MAX_ATTEMPTS - entry.attempts]

(***************************************************************************)
(* recordSuccessfulLogin, cleanupOldEntries, getRateLimitInfo              *)
(***************************************************************************)
\* a variant that leaves a blocked entry in place
RecordSuccessDataKeepsBlock(data, ip) ==
    SelectSeq(data, LAMBDA e : e.ip # ip \/ HasBlock(e))

RecordSuccessData(data, ip) == WithoutIp(data, ip)

\* the filter predicate of cleanupOldEntries
\* a variant that keeps entries for one window only
CleanupKeepsOneWindow(entry, t) ==
    \/ entry.lastAttempt > t - WINDOW_MS
    \/ (HasBlock(entry) /\ entry.blockedUntil > t)

CleanupKeeps(entry, t) ==
    LET cutoff == t - WINDOW_MS * 2
    IN  \/ entry.lastAttempt > cutoff
        \/ (HasBlock(entry) /\ entry.blockedUntil > t)

CleanupData(data, t) ==
    LET validEntries == SelectSeq(data, LAMBDA e : CleanupKeeps(e, t))
    IN  IF Len(validEntries) # Len(data) THEN validEntries ELSE data

Max(a, b) == IF a >= b THEN a ELSE b

GetRateLimitInfoRet(data, ip, t) ==
    IF ~HasEntry(data, ip)
    THEN [attempts |-> 0, maxAttempts |-> MAX_ATTEMPTS, windowMs |-> WINDOW_MS,
          attemptsLeft |-> MAX_ATTEMPTS]
    ELSE LET entry == FindEntry(data, ip)
             windowStart == t - WINDOW_MS
         IN  IF entry.firstAttempt < windowStart
             THEN [attempts |-> 0, maxAttempts |-> MAX_ATTEMPTS,
                   windowMs |-> WINDOW_MS, attemptsLeft |-> MAX_ATTEMPTS]
             ELSE [attempts |-> entry.attempts, maxAttempts |-> MAX_ATTEMPTS,
                   windowMs |-> WINDOW_MS,
                   attemptsLeft |-> Max(0, MAX_ATTEMPTS - entry.attempts),
                   resetTime |-> entry.firstAttempt + WINDOW_MS]

\* one row of getRateLimitStats()
StatsRow(entry, t) ==
    LET windowStart == t - WINDOW_MS
        isWithinWindow == entry.firstAttempt > windowStart
        blocked == IF HasBlock(entry) THEN entry.blockedUntil > t ELSE FALSE
        row == [ip |-> entry.ip,
                attempts |-> IF isWithinWindow THEN entry.attempts ELSE 0,
                blocked |-> blocked,
                lastAttempt |-> entry.lastAttempt,
                firstAttempt |-> entry.firstAttempt]
    IN  IF HasBlock(entry)
        THEN row @@ [blockedUntil |-> entry.blockedUntil]
        ELSE row

GetRateLimitStatsRet(data, t) == [i \in 1..Len(data) |-> StatsRow(data[i], t)]

(***************************************************************************)
(* State machine of the limiter                                            *)
(***************************************************************************)
NoCall == [op |-> "none"]

\* File names and paths are strings, modelled as sequences of characters.
Post1Mdx == <<"p", "o", "s", "t", "-", "1", ".", "m", "d", "x">>
NotesTxt == <<"n", "o", "t", "e", "s", ".", "t", "x", "t">>
SubDirMdx == <<"a", "/", "b", ".", "m", "d", "x">>
PasswdMdx ==
    <<".", ".", "/", ".", ".", "/", "e", "t", "c", "/",
      "p", "a", "s", "s", "w", "d", ".", "m", "d", "x">>

\* the files the handlers can reach, by their path relative to
\* src/content/blog: a post, a file that is no post, a file of a
\* subdirectory and a file outside the directory
InitialFiles == {Post1Mdx, NotesTxt, SubDirMdx, PasswdMdx}

NoStreak == [n |-> 0, start |-> 0]

\* the requests that can be in flight at once
Procs == {"p1", "p2"}

\* a request that is not in flight
Idle == [op |-> "idle"]

Init ==
    /\ now = 0
    /\ rateLimits = <<>>
    /\ users = <<>>
    /\ sessions = <<>>
    /\ last = NoCall
    /\ streak = [ip \in IPs |-> NoStreak]
    /\ blockT = [ip \in IPs |-> 0]
    /\ expired = {}
    /\ files = InitialFiles
    /\ revoked = {}
    /\ failures = [ip \in IPs |-> <<>>]
    /\ shadow = <<>>
    /\ procs = [p \in Procs |-> Idle]

IsBlocked(ip) ==
    /\ rateLimits' = IsBlockedData(rateLimits, ip, now)
    /\ last' = [op |-> "isBlocked", ip |-> ip, at |-> now,
                ret |-> IsBlockedRet(rateLimits, ip, now), pre |-> rateLimits]
    /\ streak' = [a \in IPs |->
                    IF HasEntry(rateLimits', a) THEN streak[a] ELSE NoStreak]
    /\ expired' = IF HasEntry(rateLimits, ip) /\ ~HasEntry(rateLimits', ip)
                  THEN expired \cup {ip}
                  ELSE expired \ {ip}
    /\ UNCHANGED <<now, users, sessions, blockT>>
    /\ UNCHANGED <<files, revoked, failures, shadow, procs>>

RecordFailedAttempt(ip) ==
    /\ HasEntry(rateLimits, ip) => FindEntry(rateLimits, ip).attempts < MaxBurst
    /\ rateLimits' = RecordFailedData(rateLimits, ip, now)
    /\ last' = [op |-> "recordFailedAttempt", ip |-> ip, at |-> now,
                ret |-> RecordFailedRet(rateLimits, ip, now),
                pre |-> rateLimits, afterExpiry |-> ip \in expired]
    /\ streak' = [streak EXCEPT ![ip] =
                    IF ~HasEntry(rateLimits, ip)
                    THEN [n |-> 1, start |-> now]
                    ELSE IF @.n > 0 /\ now - @.start <= WINDOW_MS
                         THEN [@ EXCEPT !.n = @ + 1]
                         ELSE NoStreak]
    /\ blockT' = [blockT EXCEPT ![ip] =
                    IF RecordFailedRet(rateLimits, ip, now).blocked
                    THEN Max(@, RecordFailedRet(rateLimits, ip, now).blockedUntil)
                    ELSE @]
    /\ expired' = expired \ {ip}
    /\ UNCHANGED <<now, users, sessions>>
    /\ UNCHANGED <<files, revoked, failures, shadow, procs>>

RecordSuccessfulLogin(ip) ==
    /\ rateLimits' = RecordSuccessData(rateLimits, ip)
    /\ last' = [op |-> "recordSuccessfulLogin", ip |-> ip, at |-> now,
                pre |-> rateLimits]
    /\ streak' = [a \in IPs |->
                    IF HasEntry(rateLimits', a) THEN streak[a] ELSE NoStreak]
    /\ blockT' = [blockT EXCEPT ![ip] = 0]
    /\ expired' = expired \ {ip}
    /\ UNCHANGED <<now, users, sessions>>
    /\ UNCHANGED <<files, revoked, failures, shadow, procs>>

CleanupOldEntries ==
    /\ rateLimits' = CleanupData(rateLimits, now)
    /\ last' = [op |-> "cleanupOldEntries", at |-> now, pre |-> rateLimits]
    /\ streak' = [a \in IPs |->
                    IF HasEntry(rateLimits', a) THEN streak[a] ELSE NoStreak]
    /\ UNCHANGED <<now, users, sessions, blockT, expired>>
    /\ UNCHANGED <<files, revoked, failures, shadow, procs>>

GetRateLimitInfo(ip) ==
    /\ last' = [op |-> "getRateLimitInfo", ip |-> ip, at |-> now,
                ret |-> GetRateLimitInfoRet(rateLimits, ip, now),
                pre |-> rateLimits]
    /\ expired' = expired \ {ip}
    /\ UNCHANGED <<now, rateLimits, users, sessions, streak, blockT>>
    /\ UNCHANGED <<files, revoked, failures, shadow, procs>>

GetRateLimitStats ==
    /\ last' = [op |-> "getRateLimitStats", at |-> now,
                ret |-> GetRateLimitStatsRet(rateLimits, now),
                pre |-> rateLimits]
    /\ UNCHANGED <<now, rateLimits, users, sessions, streak, blockT, expired>>
    /\ UNCHANGED <<files, revoked, failures, shadow, procs>>

\* time passes
LimiterTick ==
    /\ \E t \in LimiterInstants : t > now /\ now' = t
    /\ last' = NoCall
    /\ blockT' = [a \in IPs |-> IF blockT[a] <= now' THEN 0 ELSE blockT[a]]
    /\ UNCHANGED <<rateLimits, users, sessions, streak, expired>>
    /\ UNCHANGED <<files, revoked, failures, shadow, procs>>

LimiterNext ==
    \/ \E ip \in Callers(now) : IsBlocked(ip)
    \/ \E ip \in Callers(now) : RecordFailedAttempt(ip)
    \/ \E ip \in Callers(now) : RecordSuccessfulLogin(ip)
    \/ CleanupOldEntries
    \/ \E ip \in Callers(now) : GetRateLimitInfo(ip)
    \/ LimiterTick

LimiterSpec == Init /\ [][LimiterNext]_vars

(***************************************************************************)
(* Credential and session store                                            *)
(***************************************************************************)
\* createSession: Date.now() + 24 * 60 * 60 * 1000
SESSION_MS == 24 * 60 * 60 * 1000

\* the clock of the store runs over MaxTicks steps of TickMs milliseconds, and
\* over the same steps one session lifetime later
MaxTicks == 2
TickMs == 500
\* generateId draws its random suffix from 0..MaxRand
MaxRand == 1
\* createSession is not called on a collection of this many sessions
MaxSessions == 2

StoreInstants ==
    {k * TickMs : k \in 0..MaxTicks}
        \cup {SESSION_MS + k * TickMs : k \in 0..MaxTicks}

Usernames == {"admin", "editor1"}
Hashes == {"$2a$12$A", "$2a$12$B"}
Roles == {"admin", "user"}

\* Date.now().toString(36) + Math.random().toString(36).substr(2): the time
\* of the call followed by a random suffix
GenerateId(t, r) == [t |-> t, r |-> r]

\* process.env.JWT_SECRET || 'your-secret-key-change-in-production'
JWT_SECRET == "your-secret-key-change-in-production"

\* jwt.sign({userId, username}, JWT_SECRET, {expiresIn: '24h'}): the payload
\* with iat and exp in whole seconds, signed with the fixed secret (HS256 is
\* deterministic, so the token is a function of the payload and the key,
\* and the signature is modelled by the key that made it)
GenerateToken(userId, username, t) ==
    [userId |-> userId, username |-> username,
     iat |-> t \div 1000, exp |-> t \div 1000 + 24 * 60 * 60,
     sig |-> JWT_SECRET]

\* users.find(user => user.username === username) is defined
UsernameExists(data, username) ==
    \E i \in 1..Len(data) : data[i].username = username

\* a variant that appends without looking for the username
CreateUserDataNoCheck(data, username, password, role, t, r) ==
    Append(data, [id |-> GenerateId(t, r), username |-> username,
                  password |-> password, role |-> role,
                  createdAt |-> t, updatedAt |-> t])

CreateUserData(data, username, password, role, t, r) ==
    IF UsernameExists(data, username)
    THEN data
    ELSE Append(data, [id |-> GenerateId(t, r), username |-> username,
                       password |-> password, role |-> role,
                       createdAt |-> t, updatedAt |-> t])

CreateUserRet(data, username) == ~UsernameExists(data, username)

\* users.findIndex(user => user.id === userId), 1-based; 0 when none
UserIndexById(data, userId) ==
    IF \E i \in 1..Len(data) : data[i].id = userId
    THEN CHOOSE i \in 1..Len(data) :
            /\ data[i].id = userId
            /\ \A j \in 1..(i - 1) : data[j].id # userId
    ELSE 0

\* a variant that writes the new password to every user with the id (map)
UpdateUserPasswordDataAll(data, userId, newHashedPassword, t) ==
    [i \in 1..Len(data) |->
        IF data[i].id = userId
        THEN [data[i] EXCEPT !.password = newHashedPassword, !.updatedAt = t]
        ELSE data[i]]

UpdateUserPasswordData(data, userId, newHashedPassword, t) ==
    IF UserIndexById(data, userId) = 0
    THEN data
    ELSE [data EXCEPT ![UserIndexById(data, userId)] =
            [@ EXCEPT !.password = newHashedPassword, !.updatedAt = t]]

UpdateUserPasswordRet(data, userId) == UserIndexById(data, userId) # 0

CreateSessionData(data, userId, token, t, r) ==
    Append(data, [id |-> GenerateId(t, r), userId |-> userId, token |-> token,
                  expiresAt |-> t + SESSION_MS, createdAt |-> t])

\* sessions.filter(s => s.token !== token): removeSession and deleteSession
WithoutToken(data, token) == SelectSeq(data, LAMBDA x : x.token # token)

\* a variant that removes the first record with the token only (splice)
RemoveSessionDataFirst(data, token) ==
    IF \E i \in 1..Len(data) : data[i].token = token
    THEN LET k == CHOOSE i \in 1..Len(data) :
                    /\ data[i].token = token
                    /\ \A j \in 1..(i - 1) : data[j].token # token
         IN  SubSeq(data, 1, k - 1) \o SubSeq(data, k + 1, Len(data))
    ELSE data

RemoveSessionData(data, token) == WithoutToken(data, token)

DeleteSessionData(data, token) == WithoutToken(data, token)

\* sessions.findIndex(s => s.token === token), 1-based; 0 when none
SessionIndex(data, token) ==
    IF \E i \in 1..Len(data) : data[i].token = token
    THEN CHOOSE i \in 1..Len(data) :
            /\ data[i].token = token
            /\ \A j \in 1..(i - 1) : data[j].token # token
    ELSE 0

Null == [null |-> TRUE]

\* a string that is no JWT (jwt.verify throws 'jwt malformed')
Malformed == [malformed |-> TRUE]

\* the token with its signature replaced by one made with another key
Forged(token) == [token EXCEPT !.sig = "another-key"]

\* a variant that does not look at exp (ignoreExpiration)
VerifyTokenRetNoExp(token, t) ==
    IF "sig" \notin DOMAIN token
    THEN Null
    ELSE IF token.sig # JWT_SECRET
         THEN Null
         ELSE [userId |-> token.userId, username |-> token.username,
               iat |-> token.iat, exp |-> token.exp]

\* jwt.verify(token, JWT_SECRET) inside try/catch: it throws on a string that
\* does not decode, on a signature made with another key, and when
\* Math.floor(Date.now() / 1000) >= payload.exp; otherwise it returns the
\* payload
VerifyTokenRet(token, t) ==
    IF "sig" \notin DOMAIN token
    THEN Null
    ELSE IF token.sig # JWT_SECRET
         THEN Null
         ELSE IF t \div 1000 >= token.exp
              THEN Null
              ELSE [userId |-> token.userId, username |-> token.username,
                    iat |-> token.iat, exp |-> token.exp]

\* a variant that reports the expired session but leaves it in the file
GetSessionByTokenDataKeep(data, token, t) == data

GetSessionByTokenRet(data, token, t) ==
    IF SessionIndex(data, token) = 0
    THEN Null
    ELSE IF data[SessionIndex(data, token)].expiresAt < t
         THEN Null
         ELSE data[SessionIndex(data, token)]

GetSessionByTokenData(data, token, t) ==
    IF SessionIndex(data, token) = 0
    THEN data
    ELSE IF data[SessionIndex(data, token)].expiresAt < t
         THEN DeleteSessionData(data, token)
         ELSE data

CleanupExpiredSessionsData(data, t) ==
    SelectSeq(data, LAMBDA x : x.expiresAt > t)

CreateUser(username, password, role, r) ==
    /\ users' = CreateUserData(users, username, password, role, now, r)
    /\ last' = [op |-> "createUser", username |-> username, at |-> now,
                ret |-> CreateUserRet(users, username), pre |-> users]
    /\ UNCHANGED <<now, rateLimits, sessions, streak, blockT, expired>>
    /\ UNCHANGED <<files, revoked, failures, shadow, procs>>

UpdateUserPassword(userId, newHashedPassword) ==
    /\ users' = UpdateUserPasswordData(users, userId, newHashedPassword, now)
    /\ last' = [op |-> "updateUserPassword", userId |-> userId,
                password |-> newHashedPassword, at |-> now,
                ret |-> UpdateUserPasswordRet(users, userId), pre |-> users]
    /\ UNCHANGED <<now, rateLimits, sessions, streak, blockT, expired>>
    /\ UNCHANGED <<files, revoked, failures, shadow, procs>>

CreateSession(userId, token, r) ==
    /\ sessions' = CreateSessionData(sessions, userId, token, now, r)
    /\ last' = [op |-> "createSession", token |-> token, at |-> now,
                ret |-> TRUE, pre |-> sessions]
    /\ UNCHANGED <<now, rateLimits, users, streak, blockT, expired>>
    /\ UNCHANGED <<files, revoked, failures, shadow, procs>>

RemoveSession(token) ==
    /\ sessions' = RemoveSessionData(sessions, token)
    /\ last' = [op |-> "removeSession", token |-> token, at |-> now,
                pre |-> sessions]
    /\ UNCHANGED <<now, rateLimits, users, streak, blockT, expired>>
    /\ UNCHANGED <<files, revoked, failures, shadow, procs>>

DeleteSession(token) ==
    /\ sessions' = DeleteSessionData(sessions, token)
    /\ last' = [op |-> "deleteSession", token |-> token, at |-> now,
                ret |-> TRUE, pre |-> sessions]
    /\ UNCHANGED <<now, rateLimits, users, streak, blockT, expired>>
    /\ UNCHANGED <<files, revoked, failures, shadow, procs>>

GetSessionByToken(token) ==
    /\ sessions' = GetSessionByTokenData(sessions, token, now)
    /\ last' = [op |-> "getSessionByToken", token |-> token, at |-> now,
                ret |-> GetSessionByTokenRet(sessions, token, now),
                pre |-> sessions]
    /\ UNCHANGED <<now, rateLimits, users, streak, blockT, expired>>
    /\ UNCHANGED <<files, revoked, failures, shadow, procs>>

CleanupExpiredSessions ==
    /\ sessions' = CleanupExpiredSessionsData(sessions, now)
    /\ last' = [op |-> "cleanupExpiredSessions", at |-> now, pre |-> sessions]
    /\ UNCHANGED <<now, rateLimits, users, streak, blockT, expired>>
    /\ UNCHANGED <<files, revoked, failures, shadow, procs>>

VerifyToken(token) ==
    /\ last' = [op |-> "verifyToken", token |-> token, at |-> now,
                ret |-> VerifyTokenRet(token, now)]
    /\ UNCHANGED <<now, rateLimits, users, sessions, streak, blockT, expired>>
    /\ UNCHANGED <<files, revoked, failures, shadow, procs>>

\* time passes
StoreTick ==
    /\ \E t \in StoreInstants : t > now /\ now' = t
    /\ last' = NoCall
    /\ UNCHANGED <<rateLimits, users, sessions, streak, blockT, expired>>
    /\ UNCHANGED <<files, revoked, failures, shadow, procs>>

\* time passes; no operation on users reads the clock except to stamp the
\* record, so the clock of the users collection runs over the ticks alone
UserTick ==
    /\ \E k \in 0..MaxTicks : k * TickMs > now /\ now' = k * TickMs
    /\ last' = NoCall
    /\ UNCHANGED <<rateLimits, users, sessions, streak, blockT, expired>>
    /\ UNCHANGED <<files, revoked, failures, shadow, procs>>

\* the ids of the stored users and one id that no user has
UserIds == {users[i].id : i \in 1..Len(users)} \cup {GenerateId(0, MaxRand + 1)}

\* the tokens of the stored sessions and those a login would issue now
Tokens ==
    {sessions[i].token : i \in 1..Len(sessions)}
        \cup {GenerateToken(users[i].id, users[i].username, now) :
                i \in 1..Len(users)}

\* strings that were not issued by generateToken: no JWT at all, and the
\* tokens above with a signature made with another key
Forgeries == {Malformed} \cup {Forged(token) : token \in Tokens}

\* bcrypt.hash('admin123', 12)
DefaultHash == "$2a$12$admin123"

InitializeDefaultUser(r) ==
    /\ users' = IF Len(users) = 0
                THEN CreateUserData(users, "admin", DefaultHash, "admin", now, r)
                ELSE users
    /\ last' = [op |-> "initializeDefaultUser", at |-> now, pre |-> users]
    /\ UNCHANGED <<now, rateLimits, sessions, streak, blockT, expired>>
    /\ UNCHANGED <<files, revoked, failures, shadow, procs>>

UserNext ==
    \/ \E username \in Usernames, password \in Hashes, role \in Roles,
          r \in 0..MaxRand :
            CreateUser(username, password, role, r)
    \/ \E userId \in UserIds, password \in Hashes :
            UpdateUserPassword(userId, password)
    \/ \E r \in 0..MaxRand : InitializeDefaultUser(r)
    \/ UserTick

\* the users collection alone
UserSpec == Init /\ [][UserNext]_vars

\* the store once initializeDefaultUser has seeded the administrator
SessionInit ==
    /\ now = 0
    /\ rateLimits = <<>>
    /\ \E r \in 0..MaxRand :
        users = CreateUserData(<<>>, "admin", DefaultHash, "admin", 0, r)
    /\ sessions = <<>>
    /\ last = NoCall
    /\ streak = [ip \in IPs |-> NoStreak]
    /\ blockT = [ip \in IPs |-> 0]
    /\ expired = {}
    /\ files = InitialFiles
    /\ revoked = {}
    /\ failures = [ip \in IPs |-> <<>>]
    /\ shadow = <<>>
    /\ procs = [p \in Procs |-> Idle]

SessionNext ==
    \/ \E i \in 1..Len(users), r \in 0..MaxRand :
            /\ Len(sessions) < MaxSessions
            /\ CreateSession(users[i].id,
                             GenerateToken(users[i].id, users[i].username, now),
                             r)
    \/ \E token \in Tokens : RemoveSession(token)
    \/ \E token \in Tokens : DeleteSession(token)
    \/ \E token \in Tokens : GetSessionByToken(token)
    \/ \E token \in Tokens \cup Forgeries : VerifyToken(token)
    \/ CleanupExpiredSessions
    \/ StoreTick

\* the sessions collection, with the users fixed
SessionSpec == SessionInit /\ [][SessionNext]_vars

(***************************************************************************)
(* The guard of the admin area (adminMiddleware.ts)                        *)
(***************************************************************************)
\* context.cookies.get('auth-token')?.value when the request has no such
\* cookie
NoCookie == [absent |-> TRUE]

\* context.url.pathname + context.url.search of the request
RequestUrl == "/admin/dashboard"

\* the cookies that requireAuth and logout delete
AuthCookies == {"auth-token", "user-info"}

\* a variant that lets a stored user of any role pass
CheckAuthRetAnyRole(usersData, sessionsData, cookie, requiredRole, t) ==
    IF cookie = NoCookie
    THEN [authenticated |-> FALSE, error |-> "No authentication token found"]
    ELSE IF VerifyTokenRet(cookie, t) = Null
    THEN [authenticated |-> FALSE, error |-> "Invalid or expired token"]
    ELSE IF GetSessionByTokenRet(sessionsData, cookie, t) = Null
    THEN [authenticated |-> FALSE, error |-> "Session not found or expired"]
    ELSE LET k == UserIndexById(usersData, VerifyTokenRet(cookie, t).userId)
         IN  IF k = 0
             THEN [authenticated |-> FALSE, error |-> "User not found"]
             ELSE [authenticated |-> TRUE,
                   user |-> [id |-> usersData[k].id,
                             username |-> usersData[k].username,
                             role |-> usersData[k].role]]

\* the result of checkAuth(context, requiredRole) for a request whose
\* auth-token cookie is cookie; the text of the role error ends in the
\* required role, kept here as a field of its own
CheckAuthRet(usersData, sessionsData, cookie, requiredRole, t) ==
    IF cookie = NoCookie
    THEN [authenticated |-> FALSE, error |-> "No authentication token found"]
    ELSE IF VerifyTokenRet(cookie, t) = Null
    THEN [authenticated |-> FALSE, error |-> "Invalid or expired token"]
    ELSE IF GetSessionByTokenRet(sessionsData, cookie, t) = Null
    THEN [authenticated |-> FALSE, error |-> "Session not found or expired"]
    ELSE LET k == UserIndexById(usersData, VerifyTokenRet(cookie, t).userId)
         IN  IF k = 0
             THEN [authenticated |-> FALSE, error |-> "User not found"]
             ELSE IF usersData[k].role # requiredRole
             THEN [authenticated |-> FALSE,
                   error |-> "Access denied. Required role: ",
                   errorRole |-> requiredRole]
             ELSE [authenticated |-> TRUE,
                   user |-> [id |-> usersData[k].id,
                             username |-> usersData[k].username,
                             role |-> usersData[k].role]]

\* the sessions collection after checkAuth: getSessionByToken is reached
\* when the cookie is there and verifies, and drops an expired session
CheckAuthData(sessionsData, cookie, t) ==
    IF cookie = NoCookie
    THEN sessionsData
    ELSE IF VerifyTokenRet(cookie, t) = Null
         THEN sessionsData
         ELSE GetSessionByTokenData(sessionsData, cookie, t)

\* the response of requireAuth: null, or a redirect to the login page that
\* carries the request's URL, after deleting the two cookies
RequireAuthRet(auth, url) ==
    IF auth.authenticated
    THEN Null
    ELSE [status |-> 302, location |-> "/admin/login", return |-> url,
          deleted |-> AuthCookies]

\* the response of requireAuthAPI: null, or 401 with the error as JSON
RequireAuthAPIRet(auth) ==
    IF auth.authenticated
    THEN Null
    ELSE [status |-> 401,
          body |-> [error |-> auth.error, authenticated |-> FALSE]]

\* a variant of logout that deletes the cookies and leaves the sessions
LogoutDataCookiesOnly(sessionsData, cookie, t) == sessionsData

\* the sessions collection after logout: getSessionByToken, and removeSession
\* when it returned a session
LogoutData(sessionsData, cookie, t) ==
    IF cookie = NoCookie
    THEN sessionsData
    ELSE IF GetSessionByTokenRet(sessionsData, cookie, t) = Null
         THEN GetSessionByTokenData(sessionsData, cookie, t)
         ELSE RemoveSessionData(GetSessionByTokenData(sessionsData, cookie, t),
                                cookie)

LogoutRet ==
    [status |-> 302, location |-> "/admin/login", deleted |-> AuthCookies]

CheckAuth(cookie, requiredRole) ==
    /\ sessions' = CheckAuthData(sessions, cookie, now)
    /\ last' = [op |-> "checkAuth", token |-> cookie, role |-> requiredRole,
                at |-> now, pre |-> sessions,
                ret |-> CheckAuthRet(users, sessions, cookie, requiredRole,
                                     now)]
    /\ UNCHANGED <<now, rateLimits, users, streak, blockT, expired>>
    /\ UNCHANGED <<files, revoked, failures, shadow, procs>>

RequireAuth(cookie, requiredRole) ==
    /\ sessions' = CheckAuthData(sessions, cookie, now)
    /\ last' = [op |-> "requireAuth", token |-> cookie, role |-> requiredRole,
                at |-> now, pre |-> sessions,
                ret |-> RequireAuthRet(
                            CheckAuthRet(users, sessions, cookie, requiredRole,
                                         now),
                            RequestUrl)]
    /\ UNCHANGED <<now, rateLimits, users, streak, blockT, expired>>
    /\ UNCHANGED <<files, revoked, failures, shadow, procs>>

RequireAuthAPI(cookie, requiredRole) ==
    /\ sessions' = CheckAuthData(sessions, cookie, now)
    /\ last' = [op |-> "requireAuthAPI", token |-> cookie,
                role |-> requiredRole, at |-> now, pre |-> sessions,
                ret |-> RequireAuthAPIRet(
                            CheckAuthRet(users, sessions, cookie, requiredRole,
                                         now))]
    /\ UNCHANGED <<now, rateLimits, users, streak, blockT, expired>>
    /\ UNCHANGED <<files, revoked, failures, shadow, procs>>

\* the tokens that still verify at time t
Verifying(tokens, t) == {token \in tokens : VerifyTokenRet(token, t) # Null}

Logout(cookie) ==
    /\ sessions' = LogoutData(sessions, cookie, now)
    /\ last' = [op |-> "logout", token |-> cookie, at |-> now,
                ret |-> LogoutRet]
    /\ revoked' = Verifying(revoked \cup {cookie}, now)
    /\ UNCHANGED <<now, rateLimits, users, streak, blockT, expired, files>>
    /\ UNCHANGED <<failures, shadow, procs>>

\* removeSession, called with a token that was presented
Revoke(token) ==
    /\ sessions' = RemoveSessionData(sessions, token)
    /\ last' = [op |-> "removeSession", token |-> token, at |-> now]
    /\ revoked' = Verifying(revoked \cup {token}, now)
    /\ UNCHANGED <<now, rateLimits, users, streak, blockT, expired, files>>
    /\ UNCHANGED <<failures, shadow, procs>>

\* a login: generateToken and createSession for the identity
Login(userId, username) ==
    /\ sessions' = CreateSessionData(sessions, userId,
                                     GenerateToken(userId, username, now),
                                     now, 0)
    /\ last' = [op |-> "createSession",
                token |-> GenerateToken(userId, username, now), at |-> now,
                ret |-> TRUE]
    /\ revoked' = revoked \ {GenerateToken(userId, username, now)}
    /\ UNCHANGED <<now, rateLimits, users, streak, blockT, expired, files>>
    /\ UNCHANGED <<failures, shadow, procs>>

AuthTick ==
    /\ \E t \in StoreInstants : t > now /\ now' = t
    /\ last' = NoCall
    /\ revoked' = Verifying(revoked, now')
    /\ UNCHANGED <<rateLimits, users, sessions, streak, blockT, expired, files>>
    /\ UNCHANGED <<failures, shadow, procs>>

\* an id that no stored user has: the user of an orphaned session
GhostId == GenerateId(0, MaxRand + 1)

\* the identities a token can name: the stored users and one that is not
\* stored
Identities ==
    {<<users[i].id, users[i].username>> : i \in 1..Len(users)}
        \cup {<<GhostId, "ghost">>}

\* the values of the auth-token cookie: none, the tokens of the stored
\* sessions, those issued at time 0 (with or without a stored session), and
\* strings that are no valid token
Cookies ==
    {NoCookie, Malformed}
        \cup {sessions[i].token : i \in 1..Len(sessions)}
        \cup {Forged(sessions[i].token) : i \in 1..Len(sessions)}
        \cup {GenerateToken(id[1], id[2], 0) : id \in Identities}

\* the store with the administrator and one user of another role
AuthInit ==
    /\ now = 0
    /\ rateLimits = <<>>
    /\ users = CreateUserData(
                   CreateUserData(<<>>, "admin", DefaultHash, "admin", 0, 0),
                   "editor1", "$2a$12$A", "user", 0, 1)
    /\ sessions = <<>>
    /\ last = NoCall
    /\ streak = [ip \in IPs |-> NoStreak]
    /\ blockT = [ip \in IPs |-> 0]
    /\ expired = {}
    /\ files = InitialFiles
    /\ revoked = {}
    /\ failures = [ip \in IPs |-> <<>>]
    /\ shadow = <<>>
    /\ procs = [p \in Procs |-> Idle]

\* The logins happen during the first TickMs milliseconds; the sessions they
\* created are then followed through their expiry.
AuthNext ==
    \/ \E id \in Identities :
            /\ Len(sessions) < MaxSessions
            /\ now <= TickMs
            /\ Login(id[1], id[2])
    \/ \E cookie \in Cookies, role \in Roles : CheckAuth(cookie, role)
    \/ \E cookie \in Cookies, role \in Roles : RequireAuth(cookie, role)
    \/ \E cookie \in Cookies, role \in Roles : RequireAuthAPI(cookie, role)
    \/ \E cookie \in Cookies : Logout(cookie)
    \/ \E cookie \in Cookies \ {NoCookie} : Revoke(cookie)
    \/ AuthTick

\* the guard over the sessions collection, with the users fixed
AuthSpec == AuthInit /\ [][AuthNext]_vars

(***************************************************************************)
(* POST /api/delete-content (delete-content.ts)                            *)
(***************************************************************************)
BackslashMdx == <<"a", "\\", "b", ".", "m", "d", "x">>
DotDotMdx == <<"a", ".", ".", "b", ".", "m", "d", "x">>
GoneMdx == <<"g", "o", "n", "e", ".", "m", "d", "x">>

\* the values of the form's filename field
Filenames ==
    {<<>>, Post1Mdx, NotesTxt, SubDirMdx, PasswdMdx, BackslashMdx, DotDotMdx,
     GoneMdx}

\* a request body that request.formData() cannot parse
BadBody == [unparsable |-> TRUE]

\* the request bodies: forms with a filename field, a form without one, and
\* a body that is no form
Forms == {[filename |-> f] : f \in Filenames} \cup {[title |-> Post1Mdx], BadBody}

\* String.prototype.endsWith
EndsWith(str, suffix) ==
    /\ Len(str) >= Len(suffix)
    /\ SubSeq(str, Len(str) - Len(suffix) + 1, Len(str)) = suffix

\* String.prototype.includes
Includes(str, part) ==
    \E i \in 1..(Len(str) - Len(part) + 1) :
        SubSeq(str, i, i + Len(part) - 1) = part

\* formData.get('filename') is null or the empty string
FilenameMissing(form) ==
    IF "filename" \in DOMAIN form THEN form.filename = <<>> ELSE TRUE

\* a variant that checks the extension only
FilenameAllowedByExtension(filename) ==
    EndsWith(filename, <<".", "m", "d", "x">>)

\* the two checks of the filename: the extension, then the path characters
FilenameAllowed(filename) ==
    /\ EndsWith(filename, <<".", "m", "d", "x">>)
    /\ ~(\/ Includes(filename, <<".", ".">>)
         \/ Includes(filename, <<"/">>)
         \/ Includes(filename, <<"\\">>))

\* path.join(contentDir, filename), relative to contentDir; a name that
\* passed the checks has no separator and no '..', so it names the file of
\* that name in contentDir
JoinPath(filename) == filename

\* a variant that asks for a logged-in user of any role
DeletePostAuthAnyRole(usersData, sessionsData, cookie, t) ==
    CheckAuthRetAnyRole(usersData, sessionsData, cookie, "admin", t)
        .authenticated

\* requireAuth(context) and then getCurrentUser(context), each a
\* checkAuth(context, 'admin'); the second reads the sessions the first left
DeletePostAuth(usersData, sessionsData, cookie, t) ==
    /\ CheckAuthRet(usersData, sessionsData, cookie, "admin", t).authenticated
    /\ CheckAuthRet(usersData, CheckAuthData(sessionsData, cookie, t), cookie,
                    "admin", t).authenticated

\* the sessions collection after the handler
DeletePostSessions(usersData, sessionsData, cookie, t) ==
    IF CheckAuthRet(usersData, sessionsData, cookie, "admin", t).authenticated
    THEN CheckAuthData(CheckAuthData(sessionsData, cookie, t), cookie, t)
    ELSE CheckAuthData(sessionsData, cookie, t)

\* the handler got as far as fs.unlinkSync and it did not throw
DeletePostUnlinks(usersData, sessionsData, fileSet, cookie, form, unlinkOk, t) ==
    /\ DeletePostAuth(usersData, sessionsData, cookie, t)
    /\ form # BadBody
    /\ ~FilenameMissing(form)
    /\ FilenameAllowed(form.filename)
    /\ JoinPath(form.filename) \in fileSet
    /\ unlinkOk

\* the files after the handler
DeletePostFiles(usersData, sessionsData, fileSet, cookie, form, unlinkOk, t) ==
    IF DeletePostUnlinks(usersData, sessionsData, fileSet, cookie, form,
                         unlinkOk, t)
    THEN fileSet \ {JoinPath(form.filename)}
    ELSE fileSet

\* the response of the handler
DeletePostRet(usersData, sessionsData, fileSet, cookie, form, unlinkOk, t) ==
    IF ~CheckAuthRet(usersData, sessionsData, cookie, "admin", t).authenticated
    THEN [status |-> 401, error |-> "Unauthorized"]
    ELSE IF ~DeletePostAuth(usersData, sessionsData, cookie, t)
    THEN [status |-> 401, error |-> "Unauthorized"]
    ELSE IF form = BadBody
    THEN [status |-> 500, error |-> "Internal server error"]
    ELSE IF FilenameMissing(form)
    THEN [status |-> 400, error |-> "Filename is required"]
    ELSE IF ~EndsWith(form.filename, <<".", "m", "d", "x">>)
    THEN [status |-> 400, error |-> "Invalid file type"]
    ELSE IF ~FilenameAllowed(form.filename)
    THEN [status |-> 400, error |-> "Invalid filename"]
    ELSE IF JoinPath(form.filename) \notin fileSet
    THEN [status |-> 404, error |-> "File not found"]
    ELSE IF ~unlinkOk
    THEN [status |-> 500, error |-> "Internal server error"]
    ELSE [status |-> 200, success |-> TRUE, filename |-> form.filename]

DeletePost(cookie, form, unlinkOk) ==
    /\ sessions' = DeletePostSessions(users, sessions, cookie, now)
    /\ files' = DeletePostFiles(users, sessions, files, cookie, form,
                                unlinkOk, now)
    /\ last' = [op |-> "deletePost", token |-> cookie, role |-> "admin",
                form |-> form, at |-> now, pre |-> sessions,
                preFiles |-> files,
                formRead |-> DeletePostAuth(users, sessions, cookie, now),
                ret |-> DeletePostRet(users, sessions, files, cookie, form,
                                      unlinkOk, now)]
    /\ UNCHANGED <<now, rateLimits, users, streak, blockT, expired, revoked>>
    /\ UNCHANGED <<failures, shadow, procs>>

\* the store of AuthInit after the administrator and the other user have
\* logged in
DeleteInit ==
    /\ now = 0
    /\ rateLimits = <<>>
    /\ users = CreateUserData(
                   CreateUserData(<<>>, "admin", DefaultHash, "admin", 0, 0),
                   "editor1", "$2a$12$A", "user", 0, 1)
    /\ sessions =
        CreateSessionData(
            CreateSessionData(<<>>, GenerateId(0, 0),
                              GenerateToken(GenerateId(0, 0), "admin", 0),
                              0, 0),
            GenerateId(0, 1), GenerateToken(GenerateId(0, 1), "editor1", 0),
            0, 1)
    /\ last = NoCall
    /\ streak = [ip \in IPs |-> NoStreak]
    /\ blockT = [ip \in IPs |-> 0]
    /\ expired = {}
    /\ files = InitialFiles
    /\ revoked = {}
    /\ failures = [ip \in IPs |-> <<>>]
    /\ shadow = <<>>
    /\ procs = [p \in Procs |-> Idle]

DeleteNext ==
    \/ \E cookie \in Cookies, form \in Forms, unlinkOk \in BOOLEAN :
            DeletePost(cookie, form, unlinkOk)
    \/ \E cookie \in Cookies : Logout(cookie)
    \/ AuthTick

\* the delete-content endpoint behind the guard
DeleteSpec == DeleteInit /\ [][DeleteNext]_vars

(***************************************************************************)
(* The same operations when the file system fails.  Each read and each     *)
(* write of a call either works or throws inside the try of readJsonFile,  *)
(* writeJsonFile, readRateLimitData or writeRateLimitData (a read also     *)
(* when JSON.parse throws on what it read).  A write that throws is taken  *)
(* to have left the file as it was.                                        *)
(***************************************************************************)
\* readJsonFile and readRateLimitData: the parsed file, or [] from the catch
ReadJsonFile(file, readOk) == IF readOk THEN file ELSE <<>>

\* the file after writeJsonFile or writeRateLimitData
WriteJsonFileData(file, data, writeOk) == IF writeOk THEN data ELSE file

\* the result of writeJsonFile: true, or false from the catch
WriteJsonFileRet(writeOk) == writeOk

CreateUserFile(file, username, password, role, t, r, readOk, writeOk) ==
    IF UsernameExists(ReadJsonFile(file, readOk), username)
    THEN file
    ELSE WriteJsonFileData(
            file,
            CreateUserData(ReadJsonFile(file, readOk), username, password,
                           role, t, r),
            writeOk)

CreateUserFileRet(file, username, readOk, writeOk) ==
    IF UsernameExists(ReadJsonFile(file, readOk), username)
    THEN FALSE
    ELSE WriteJsonFileRet(writeOk)

\* initializeDefaultUser: getUsers() is one read, createUser makes another
InitializeDefaultUserFile(file, t, r, readOk, readOk2, writeOk) ==
    IF Len(ReadJsonFile(file, readOk)) = 0
    THEN CreateUserFile(file, "admin", DefaultHash, "admin", t, r, readOk2,
                        writeOk)
    ELSE file

UpdateUserPasswordFile(file, userId, newHashedPassword, t, readOk, writeOk) ==
    IF UserIndexById(ReadJsonFile(file, readOk), userId) = 0
    THEN file
    ELSE WriteJsonFileData(
            file,
            UpdateUserPasswordData(ReadJsonFile(file, readOk), userId,
                                   newHashedPassword, t),
            writeOk)

\* a variant that returns true without looking at what writeJsonFile returned
UpdateUserPasswordFileRetBlind(file, userId, readOk, writeOk) ==
    UserIndexById(ReadJsonFile(file, readOk), userId) # 0

UpdateUserPasswordFileRet(file, userId, readOk, writeOk) ==
    IF UserIndexById(ReadJsonFile(file, readOk), userId) = 0
    THEN FALSE
    ELSE WriteJsonFileRet(writeOk)

CreateSessionFile(file, userId, token, t, r, readOk, writeOk) ==
    WriteJsonFileData(
        file, CreateSessionData(ReadJsonFile(file, readOk), userId, token, t, r),
        writeOk)

DeleteSessionFile(file, token, readOk, writeOk) ==
    WriteJsonFileData(
        file, DeleteSessionData(ReadJsonFile(file, readOk), token), writeOk)

\* getSessionByToken: one read, and the read and write of deleteSession when
\* the session it found has expired
GetSessionByTokenFile(file, token, t, readOk, readOk2, writeOk) ==
    LET data == ReadJsonFile(file, readOk)
    IN  IF SessionIndex(data, token) = 0
        THEN file
        ELSE IF data[SessionIndex(data, token)].expiresAt < t
             THEN DeleteSessionFile(file, token, readOk2, writeOk)
             ELSE file

\* isBlocked: one read, and a write when it prunes an expired block
IsBlockedFile(file, ip, t, readOk, writeOk) ==
    WriteJsonFileData(file, IsBlockedData(ReadJsonFile(file, readOk), ip, t),
                      writeOk /\ IsBlockedData(ReadJsonFile(file, readOk), ip, t)
                                    # ReadJsonFile(file, readOk))

GetUsersIO(readOk) ==
    /\ last' = [op |-> "getUsers", at |-> now, rd |-> readOk, pre |-> users,
                ret |-> ReadJsonFile(users, readOk)]
    /\ UNCHANGED <<now, rateLimits, users, sessions, streak, blockT, expired>>
    /\ UNCHANGED <<files, revoked, failures, shadow, procs>>

CreateUserIO(username, password, role, r, readOk, writeOk) ==
    /\ users' = CreateUserFile(users, username, password, role, now, r, readOk,
                               writeOk)
    /\ last' = [op |-> "createUser", username |-> username, at |-> now,
                rd |-> readOk, wr |-> writeOk, pre |-> users,
                ret |-> CreateUserFileRet(users, username, readOk, writeOk)]
    /\ UNCHANGED <<now, rateLimits, sessions, streak, blockT, expired>>
    /\ UNCHANGED <<files, revoked, failures, shadow, procs>>

InitializeDefaultUserIO(r, readOk, readOk2, writeOk) ==
    /\ users' = InitializeDefaultUserFile(users, now, r, readOk, readOk2,
                                          writeOk)
    /\ last' = [op |-> "initializeDefaultUser", at |-> now, rd |-> readOk,
                rd2 |-> readOk2, wr |-> writeOk, pre |-> users]
    /\ UNCHANGED <<now, rateLimits, sessions, streak, blockT, expired>>
    /\ UNCHANGED <<files, revoked, failures, shadow, procs>>

UpdateUserPasswordIO(userId, newHashedPassword, readOk, writeOk) ==
    /\ users' = UpdateUserPasswordFile(users, userId, newHashedPassword, now,
                                       readOk, writeOk)
    /\ last' = [op |-> "updateUserPassword", userId |-> userId,
                password |-> newHashedPassword, at |-> now, rd |-> readOk,
                wr |-> writeOk, pre |-> users,
                ret |-> UpdateUserPasswordFileRet(users, userId, readOk,
                                                  writeOk)]
    /\ UNCHANGED <<now, rateLimits, sessions, streak, blockT, expired>>
    /\ UNCHANGED <<files, revoked, failures, shadow, procs>>

CreateSessionIO(userId, token, r, readOk, writeOk) ==
    /\ sessions' = CreateSessionFile(sessions, userId, token, now, r, readOk,
                                     writeOk)
    /\ last' = [op |-> "createSession", token |-> token, at |-> now,
                rd |-> readOk, wr |-> writeOk, pre |-> sessions,
                ret |-> WriteJsonFileRet(writeOk)]
    /\ UNCHANGED <<now, rateLimits, users, streak, blockT, expired>>
    /\ UNCHANGED <<files, revoked, failures, shadow, procs>>

DeleteSessionIO(token, readOk, writeOk) ==
    /\ sessions' = DeleteSessionFile(sessions, token, readOk, writeOk)
    /\ last' = [op |-> "deleteSession", token |-> token, at |-> now,
                rd |-> readOk, wr |-> writeOk, pre |-> sessions,
                ret |-> WriteJsonFileRet(writeOk)]
    /\ UNCHANGED <<now, rateLimits, users, streak, blockT, expired>>
    /\ UNCHANGED <<files, revoked, failures, shadow, procs>>

GetSessionByTokenIO(token, readOk, readOk2, writeOk) ==
    /\ sessions' = GetSessionByTokenFile(sessions, token, now, readOk, readOk2,
                                         writeOk)
    /\ last' = [op |-> "getSessionByToken", token |-> token, at |-> now,
                rd |-> readOk, pre |-> sessions,
                ret |-> GetSessionByTokenRet(ReadJsonFile(sessions, readOk),
                                             token, now)]
    /\ UNCHANGED <<now, rateLimits, users, streak, blockT, expired>>
    /\ UNCHANGED <<files, revoked, failures, shadow, procs>>

IsBlockedIO(ip, readOk, writeOk) ==
    /\ rateLimits' = IsBlockedFile(rateLimits, ip, now, readOk, writeOk)
    /\ last' = [op |-> "isBlocked", ip |-> ip, at |-> now, rd |-> readOk,
                pre |-> rateLimits,
                ret |-> IsBlockedRet(ReadJsonFile(rateLimits, readOk), ip, now)]
    /\ UNCHANGED <<now, users, sessions, streak, blockT, expired>>
    /\ UNCHANGED <<files, revoked, failures, shadow, procs>>

\* time passes, to when the block and the sessions of time 0 have expired
FaultTick ==
    /\ now = 0
    /\ now' = SESSION_MS + TickMs
    /\ last' = NoCall
    /\ UNCHANGED <<rateLimits, users, sessions, streak, blockT, expired>>
    /\ UNCHANGED <<files, revoked, failures, shadow, procs>>

\* five failures of one address at time 0 have been recorded; no user is
\* stored yet
FaultInit ==
    /\ now = 0
    /\ rateLimits =
        <<BlockedEntry(Subject, MAX_ATTEMPTS, 0, 0, BLOCK_DURATION_MS)>>
    /\ users = <<>>
    /\ sessions = <<>>
    /\ last = NoCall
    /\ streak = [ip \in IPs |-> NoStreak]
    /\ blockT = [ip \in IPs |-> 0]
    /\ expired = {}
    /\ files = InitialFiles
    /\ revoked = {}
    /\ failures = [ip \in IPs |-> <<>>]
    /\ shadow = <<>>
    /\ procs = [p \in Procs |-> Idle]

\* Users and sessions are created at time 0 and read, changed and deleted
\* then and after the tick.
FaultNext ==
    \/ \E readOk \in BOOLEAN : GetUsersIO(readOk)
    \/ \E readOk, writeOk \in BOOLEAN :
            /\ now = 0
            /\ CreateUserIO("editor1", "$2a$12$A", "user", 0, readOk, writeOk)
    \/ \E readOk, readOk2, writeOk \in BOOLEAN :
            InitializeDefaultUserIO(0, readOk, readOk2, writeOk)
    \/ \E userId \in UserIds, readOk, writeOk \in BOOLEAN :
            UpdateUserPasswordIO(userId, "$2a$12$B", readOk, writeOk)
    \/ \E i \in 1..Len(users), readOk, writeOk \in BOOLEAN :
            /\ Len(sessions) < MaxSessions
            /\ now = 0
            /\ CreateSessionIO(
                    users[i].id,
                    GenerateToken(users[i].id, users[i].username, now), 0,
                    readOk, writeOk)
    \/ \E token \in Tokens, readOk, writeOk \in BOOLEAN :
            DeleteSessionIO(token, readOk, writeOk)
    \/ \E token \in Tokens, readOk, readOk2, writeOk \in BOOLEAN :
            GetSessionByTokenIO(token, readOk, readOk2, writeOk)
    \/ \E ip \in IPs, readOk, writeOk \in BOOLEAN :
            IsBlockedIO(ip, readOk, writeOk)
    \/ FaultTick

\* the store and the limiter over a file system that can fail
FaultSpec == FaultInit /\ [][FaultNext]_vars

(***************************************************************************)
(* Properties of the limiter                                               *)
(***************************************************************************)
\* the entry the last call found for its address, when it found one
PreEntry == FindEntry(last.pre, last.ip)

\* C1: of the recordFailedAttempt calls made for an address since it had no
\* entry, all within WINDOW_MS of the first, none before the MAX_ATTEMPTS-th
\* returns blocked=true, the (MAX_ATTEMPTS-1)-th returns blocked=false with
\* attemptsLeft=1, and the MAX_ATTEMPTS-th returns blocked=true with
\* blockedUntil = the time of that call + BLOCK_DURATION_MS.
C1_FifthFailureBlocks ==
    (last.op = "recordFailedAttempt" /\ streak[last.ip].n > 0) =>
        LET k == streak[last.ip].n
        IN  /\ k < MAX_ATTEMPTS =>
                last.ret = [blocked |-> FALSE, attemptsLeft |-> MAX_ATTEMPTS - k]
            /\ k = MAX_ATTEMPTS - 1 =>
                last.ret = [blocked |-> FALSE, attemptsLeft |-> 1]
            /\ k = MAX_ATTEMPTS =>
                last.ret = [blocked |-> TRUE,
                            blockedUntil |-> last.at + BLOCK_DURATION_MS]

\* the fifth failure in a row, later than the first but within its window
C1_Witness ==
    /\ last.op = "recordFailedAttempt"
    /\ streak[last.ip].n = MAX_ATTEMPTS
    /\ last.at > streak[last.ip].start
    /\ last.ret.blocked

\* C2: once recordFailedAttempt has blocked an address until T, every
\* isBlocked call for it before T returns blocked=true, whatever calls other
\* than recordSuccessfulLogin are made in between: the address stays blocked
\* until T has elapsed.
C2_BlockedUntilT ==
    /\ (last.op = "isBlocked" /\ last.at < blockT[last.ip]) => last.ret.blocked
    /\ \A ip \in IPs :
        now < blockT[ip] => IsBlockedRet(rateLimits, ip, now).blocked

\* C3: isBlocked called strictly before the entry's blockedUntil returns
\* blocked=true with remainingTime >= 1, the remaining minutes rounded up,
\* and leaves the collection unchanged.
C3_BlockedCheck ==
    (/\ last.op = "isBlocked"
     /\ HasEntry(last.pre, last.ip)
     /\ HasBlock(PreEntry)
     /\ last.at < PreEntry.blockedUntil) =>
        LET left == PreEntry.blockedUntil - last.at
        IN  /\ last.ret.blocked
            /\ last.ret.remainingTime >= 1
            /\ (last.ret.remainingTime - 1) * 60000 < left
            /\ left <= last.ret.remainingTime * 60000
            /\ rateLimits = last.pre

\* a blocked check with less than a whole minute left
C3_Witness ==
    /\ last.op = "isBlocked"
    /\ HasEntry(last.pre, last.ip)
    /\ HasBlock(PreEntry)
    /\ last.at < PreEntry.blockedUntil
    /\ PreEntry.blockedUntil - last.at < 60000
    /\ last.ret.remainingTime = 1

\* C4: isBlocked at a time >= the entry's blockedUntil returns blocked=false
\* and removes that address's entry, leaving the other entries unchanged; the
\* next recordFailedAttempt for the address creates a fresh entry with
\* attempts=1 and no blockedUntil and returns blocked=false, attemptsLeft=4.
C4_ExpiredBlockPruned ==
    /\ (/\ last.op = "isBlocked"
        /\ HasEntry(last.pre, last.ip)
        /\ HasBlock(PreEntry)
        /\ last.at >= PreEntry.blockedUntil) =>
            /\ last.ret = [blocked |-> FALSE]
            /\ ~HasEntry(rateLimits, last.ip)
            /\ rateLimits = WithoutIp(last.pre, last.ip)
    /\ (last.op = "recordFailedAttempt" /\ last.afterExpiry) =>
            /\ FindEntry(rateLimits, last.ip) = Entry(last.ip, 1, last.at, last.at)
            /\ WithoutIp(rateLimits, last.ip) = WithoutIp(last.pre, last.ip)
            /\ last.ret = [blocked |-> FALSE, attemptsLeft |-> 4]

\* a failure recorded after an expired block was pruned, another address's
\* entry being in the collection
C4_Witness ==
    /\ last.op = "recordFailedAttempt"
    /\ last.afterExpiry
    /\ Len(rateLimits) = 2

\* C5: recordFailedAttempt on an existing entry at a time later than
\* firstAttempt + WINDOW_MS sets attempts=1 and firstAttempt=lastAttempt=now
\* and returns blocked=false with attemptsLeft=4, whatever the count was.
C5_WindowReset ==
    (/\ last.op = "recordFailedAttempt"
     /\ HasEntry(last.pre, last.ip)
     /\ last.at > PreEntry.firstAttempt + WINDOW_MS) =>
        /\ FindEntry(rateLimits, last.ip) = Entry(last.ip, 1, last.at, last.at)
        /\ last.ret = [blocked |-> FALSE, attemptsLeft |-> 4]

\* a reset of an entry that had reached the block threshold
C5_Witness ==
    /\ last.op = "recordFailedAttempt"
    /\ HasEntry(last.pre, last.ip)
    /\ last.at > PreEntry.firstAttempt + WINDOW_MS
    /\ PreEntry.attempts >= MAX_ATTEMPTS

\* C6: recordSuccessfulLogin removes the address's entry whatever its state,
\* so that isBlocked then returns blocked=false and getRateLimitInfo reports
\* attempts=0 and attemptsLeft=MAX_ATTEMPTS; the other entries are unchanged.
C6_SuccessClears ==
    last.op = "recordSuccessfulLogin" =>
        /\ ~HasEntry(rateLimits, last.ip)
        /\ rateLimits = WithoutIp(last.pre, last.ip)
        /\ IsBlockedRet(rateLimits, last.ip, now) = [blocked |-> FALSE]
        /\ IsBlockedData(rateLimits, last.ip, now) = rateLimits
        /\ GetRateLimitInfoRet(rateLimits, last.ip, now).attempts = 0
        /\ GetRateLimitInfoRet(rateLimits, last.ip, now).attemptsLeft = MAX_ATTEMPTS

\* a successful login of a blocked address, another address being tracked
C6_Witness ==
    /\ last.op = "recordSuccessfulLogin"
    /\ HasEntry(last.pre, last.ip)
    /\ HasBlock(PreEntry)
    /\ last.at < PreEntry.blockedUntil
    /\ Len(rateLimits) = 1

\* the entry has a blockedUntil in the future at time t
CurrentlyBlocked(e, t) == HasBlock(e) /\ e.blockedUntil > t

\* C18, as stated: cleanupOldEntries removes exactly the entries whose
\* lastAttempt is older than now - 2*WINDOW_MS (lastAttempt < now -
\* 2*WINDOW_MS) and that are not currently blocked, and leaves every kept
\* entry unchanged.
C18_RemovesOlderThan ==
    last.op = "cleanupOldEntries" =>
        rateLimits =
            SelectSeq(last.pre,
                      LAMBDA e : ~(/\ e.lastAttempt < last.at - 2 * WINDOW_MS
                                   /\ ~CurrentlyBlocked(e, last.at)))

\* C18, amended: cleanupOldEntries removes exactly the entries whose
\* lastAttempt is at or before now - 2*WINDOW_MS and that are not currently
\* blocked; it never removes a currently blocked entry, and every kept entry
\* is unchanged and in its place.
C18_RemovesAtOrBefore ==
    last.op = "cleanupOldEntries" =>
        /\ rateLimits =
            SelectSeq(last.pre,
                      LAMBDA e : ~(/\ e.lastAttempt <= last.at - 2 * WINDOW_MS
                                   /\ ~CurrentlyBlocked(e, last.at)))
        /\ \A i \in 1..Len(last.pre) :
            CurrentlyBlocked(last.pre[i], last.at) =>
                \E j \in 1..Len(rateLimits) : rateLimits[j] = last.pre[i]

\* cleanupOldEntries drops an entry whose lastAttempt is exactly
\* 2*WINDOW_MS ago and keeps a younger one
C18_Witness ==
    /\ last.op = "cleanupOldEntries"
    /\ Len(last.pre) = 2
    /\ Len(rateLimits) = 1
    /\ \E i \in 1..2 :
        /\ last.pre[i].lastAttempt = last.at - 2 * WINDOW_MS
        /\ last.pre[i] # rateLimits[1]

(***************************************************************************)
(* Properties of the store                                                 *)
(***************************************************************************)
\* C7: createUser with a username that is already in the collection returns
\* false and leaves the collection unchanged; hence no two user records share
\* a username after any sequence of createUser and updateUserPassword calls.
C7_UniqueUsernames ==
    /\ \A i, j \in 1..Len(users) :
        users[i].username = users[j].username => i = j
    /\ (last.op = "createUser" /\ UsernameExists(last.pre, last.username)) =>
        (last.ret = FALSE /\ users = last.pre)

\* a createUser refused for a name that another call had taken
C7_Witness ==
    /\ last.op = "createUser"
    /\ UsernameExists(last.pre, last.username)
    /\ last.ret = FALSE
    /\ Len(users) = 2

\* C8: a session is valid exactly when now < expiresAt: getSessionByToken
\* returns the session iff a record with that token exists and
\* now < expiresAt (at now = expiresAt it returns null), and
\* cleanupExpiredSessions keeps exactly the sessions with now < expiresAt.
C8_ValidIffBeforeExpiry ==
    /\ last.op = "getSessionByToken" =>
        LET i == SessionIndex(last.pre, last.token)
        IN  IF i # 0 /\ last.at < last.pre[i].expiresAt
            THEN last.ret = last.pre[i]
            ELSE last.ret = Null
    /\ last.op = "cleanupExpiredSessions" =>
        sessions = SelectSeq(last.pre, LAMBDA x : last.at < x.expiresAt)

\* C9: when getSessionByToken finds the session expired it returns null and
\* the session is gone from the collection, every session with another token
\* being left unchanged; when the session is valid or absent the call does
\* not modify the collection.
C9_LazyExpiry ==
    last.op = "getSessionByToken" =>
        LET i == SessionIndex(last.pre, last.token)
        IN  IF i # 0 /\ last.pre[i].expiresAt < last.at
            THEN /\ last.ret = Null
                 /\ SessionIndex(sessions, last.token) = 0
                 /\ sessions = WithoutToken(last.pre, last.token)
            ELSE sessions = last.pre

\* an expired session deleted by the read, a session with another token kept
C9_Witness ==
    /\ last.op = "getSessionByToken"
    /\ SessionIndex(last.pre, last.token) # 0
    /\ last.pre[SessionIndex(last.pre, last.token)].expiresAt < last.at
    /\ Len(last.pre) = 2
    /\ Len(sessions) = 1

\* C10: no two records of the sessions collection have the same token, also
\* when the same user logs in twice within the same second.
C10_UniqueTokens ==
    \A i, j \in 1..Len(sessions) :
        sessions[i].token = sessions[j].token => i = j

\* C11: verifyToken accepts the token of a stored session, with the userId
\* and username it was issued for, at every time from the creation of the
\* session until the token's own expiry (exp, in whole seconds), which is no
\* later than the session's expiresAt and less than a second before it;
\* it returns null at every time after the session's expiresAt, and for a
\* string that is no token or carries a signature made with another key.
C11_TokenLifetime ==
    /\ \A i \in 1..Len(sessions) :
        /\ sessions[i].token.exp * 1000 <= sessions[i].expiresAt
        /\ sessions[i].expiresAt < sessions[i].token.exp * 1000 + 1000
    /\ last.op = "verifyToken" =>
        /\ \A i \in 1..Len(sessions) :
            sessions[i].token = last.token =>
                /\ (/\ sessions[i].createdAt <= last.at
                    /\ last.at < last.token.exp * 1000) =>
                        /\ last.ret # Null
                        /\ last.ret.userId = sessions[i].userId
                        /\ \E u \in 1..Len(users) :
                            /\ users[u].id = last.ret.userId
                            /\ users[u].username = last.ret.username
                /\ last.at > sessions[i].expiresAt => last.ret = Null
        /\ last.token \in Forgeries => last.ret = Null

\* verifyToken rejects the token of a session that is still stored, after the
\* session's expiresAt
C11_Witness ==
    /\ last.op = "verifyToken"
    /\ last.ret = Null
    /\ \E i \in 1..Len(sessions) :
        /\ sessions[i].token = last.token
        /\ last.at > sessions[i].expiresAt

\* C12: removeSession(token) leaves no record with that token, keeps every
\* other record as it was and in its place, changes nothing when no record
\* has the token, and a second call with the same token changes nothing
\* more.
C12_RemoveIdempotent ==
    last.op = "removeSession" =>
        /\ \A i \in 1..Len(sessions) : sessions[i].token # last.token
        /\ sessions = SelectSeq(last.pre, LAMBDA x : x.token # last.token)
        /\ (\A i \in 1..Len(last.pre) : last.pre[i].token # last.token) =>
                sessions = last.pre
        /\ RemoveSessionData(sessions, last.token) = sessions

\* removeSession took the token's record out and kept another token's record
C12_Witness ==
    /\ last.op = "removeSession"
    /\ Len(last.pre) = 2
    /\ Len(sessions) = 1
    /\ sessions[1].token # last.token

\* C17: updateUserPassword returns false and leaves the users collection as
\* it was when no user has the id; otherwise it returns true and changes the
\* password and updatedAt of one user with that id and nothing else.
C17_PasswordUpdateFrame ==
    last.op = "updateUserPassword" =>
        IF \A i \in 1..Len(last.pre) : last.pre[i].id # last.userId
        THEN /\ last.ret = FALSE
             /\ users = last.pre
        ELSE /\ last.ret = TRUE
             /\ Len(users) = Len(last.pre)
             /\ \E k \in 1..Len(users) :
                /\ last.pre[k].id = last.userId
                /\ users[k].password = last.password
                /\ users[k].updatedAt = last.at
                /\ users[k].id = last.pre[k].id
                /\ users[k].username = last.pre[k].username
                /\ users[k].role = last.pre[k].role
                /\ users[k].createdAt = last.pre[k].createdAt
                /\ \A j \in 1..Len(users) : j # k => users[j] = last.pre[j]

\* the password of the second of two users is replaced, later than the user
\* was created
C17_Witness ==
    /\ last.op = "updateUserPassword"
    /\ last.ret = TRUE
    /\ Len(users) = 2
    /\ users[1] = last.pre[1]
    /\ users[2].password # last.pre[2].password
    /\ users[2].updatedAt > users[2].createdAt

(***************************************************************************)
(* Properties of the guard                                                 *)
(***************************************************************************)
\* C13: from a logout or removeSession for a token until a session with that
\* token is created again, no record of the sessions collection has the
\* token, and every checkAuth with it returns authenticated=false although
\* verifyToken still accepts it.
C13_RevokedStaysOut ==
    /\ \A token \in revoked :
        /\ VerifyTokenRet(token, now) # Null
        /\ \A i \in 1..Len(sessions) : sessions[i].token # token
    /\ (last.op = "checkAuth" /\ last.token \in revoked) =>
        /\ ~last.ret.authenticated
        /\ last.ret.error = "Session not found or expired"

\* checkAuth refuses the administrator's revoked token, which still verifies
C13_Witness ==
    /\ last.op = "checkAuth"
    /\ last.token \in revoked
    /\ last.role = "admin"
    /\ last.token.username = "admin"
    /\ VerifyTokenRet(last.token, last.at) # Null
    /\ ~last.ret.authenticated

\* the conditions of the last guard call: the cookie is there, it is a token
\* with the right signature that has not reached its exp, the first session
\* with the token has not expired, and the user that the token names is
\* stored with the required role
Granted ==
    /\ last.token # NoCookie
    /\ last.token # Malformed
    /\ last.token.sig = JWT_SECRET
    /\ last.at < last.token.exp * 1000
    /\ \E i \in 1..Len(last.pre) :
        /\ last.pre[i].token = last.token
        /\ \A j \in 1..(i - 1) : last.pre[j].token # last.token
        /\ last.pre[i].expiresAt >= last.at
    /\ \E u \in 1..Len(users) :
        /\ users[u].id = last.token.userId
        /\ \A v \in 1..(u - 1) : users[v].id # last.token.userId
        /\ users[u].role = last.role

\* the last guard call got all of these but a stored user
Orphaned ==
    /\ last.token # NoCookie
    /\ VerifyTokenRet(last.token, last.at) # Null
    /\ GetSessionByTokenRet(last.pre, last.token, last.at) # Null
    /\ \A u \in 1..Len(users) : users[u].id # last.token.userId

\* C14: checkAuth returns authenticated=true, with the id, username and role
\* of the user, exactly when the cookie is present, verifyToken accepts it,
\* getSessionByToken returns a session for it, a user with the token's
\* userId is stored and has the required role; a session whose user is not
\* stored gives 'User not found'.  requireAuth returns null exactly then and
\* otherwise deletes the auth-token and user-info cookies and redirects to
\* /admin/login; requireAuthAPI returns null exactly then and otherwise a
\* 401 response.
C14_GuardExact ==
    /\ last.op = "checkAuth" =>
        /\ last.ret.authenticated <=> Granted
        /\ last.ret.authenticated =>
            /\ last.ret.user.id = last.token.userId
            /\ last.ret.user.role = last.role
        /\ Orphaned => last.ret.error = "User not found"
    /\ last.op = "requireAuth" =>
        /\ last.ret = Null <=> Granted
        /\ ~Granted =>
            /\ last.ret.deleted = {"auth-token", "user-info"}
            /\ last.ret.status = 302
            /\ last.ret.location = "/admin/login"
    /\ last.op = "requireAuthAPI" =>
        /\ last.ret = Null <=> Granted
        /\ ~Granted => last.ret.status = 401

\* checkAuth refuses a verified token with a live session whose user is not
\* stored
C14_Witness ==
    /\ last.op = "checkAuth"
    /\ Orphaned
    /\ ~last.ret.authenticated

(***************************************************************************)
(* Properties of the delete-content endpoint                               *)
(***************************************************************************)
\* the filename of the last request ends in '.mdx' and has no '/', no '\'
\* and no two dots in a row
SafeName ==
    /\ "filename" \in DOMAIN last.form
    /\ LET f == last.form.filename
           n == Len(f)
       IN  /\ n >= 4
           /\ f[n - 3] = "." /\ f[n - 2] = "m" /\ f[n - 1] = "d" /\ f[n] = "x"
           /\ \A i \in 1..n : f[i] # "/" /\ f[i] # "\\"
           /\ \A i \in 1..(n - 1) : ~(f[i] = "." /\ f[i + 1] = ".")

\* C15: the handler removes a file only when the filename ends in '.mdx' and
\* contains none of '..', '/' and '\', and then the file of that name in the
\* content directory and no other; a request that passed the guard and
\* whose form has any other filename, an empty one or none gets 400 and no
\* file is removed; 'post-1.mdx' passes the validation.
C15_FilenameValidation ==
    last.op = "deletePost" =>
        /\ files # last.preFiles =>
            /\ SafeName
            /\ files = last.preFiles \ {last.form.filename}
        /\ (last.formRead /\ last.form # BadBody /\ ~SafeName) =>
            /\ last.ret.status = 400
            /\ files = last.preFiles
        /\ (last.formRead /\ last.form = [filename |-> Post1Mdx]) =>
            last.ret.status # 400

\* the administrator asks for a file outside the content directory, which
\* exists, and gets 400
C15_Witness ==
    /\ last.op = "deletePost"
    /\ last.formRead
    /\ last.form = [filename |-> PasswdMdx]
    /\ PasswdMdx \in files
    /\ last.ret.status = 400

\* C16: the handler removes a file only for a request that checkAuth
\* authenticates with role 'admin'; every other request gets 401 before the
\* form is read; and a file is removed exactly when the status is 200.
C16_DeleteNeedsAdmin ==
    last.op = "deletePost" =>
        /\ files # last.preFiles => Granted
        /\ ~Granted =>
            /\ last.ret.status = 401
            /\ ~last.formRead
            /\ files = last.preFiles
        /\ files # last.preFiles <=> last.ret.status = 200

\* a logged-in user who is no administrator asks for an existing post and
\* gets 401
C16_Witness ==
    /\ last.op = "deletePost"
    /\ CheckAuthRet(users, last.pre, last.token, "user", last.at).authenticated
    /\ last.form = [filename |-> Post1Mdx]
    /\ Post1Mdx \in files
    /\ last.ret.status = 401

(***************************************************************************)
(* Properties under storage failures                                       *)
(***************************************************************************)
\* C19: initializeDefaultUser creates the 'admin' user only when the users
\* file holds no user; whenever the file holds at least one user, also when
\* reading it fails, the call leaves the file as it was.
C19_DefaultUserOnlyWhenEmpty ==
    last.op = "initializeDefaultUser" =>
        /\ users # last.pre => Len(last.pre) = 0
        /\ Len(last.pre) >= 1 => users = last.pre

PostEntry == FindEntry(rateLimits, last.ip)

\* C21: after recordFailedAttempt the entry's attempts is the number of
\* recordFailedAttempt calls for the address at times t with firstAttempt <=
\* t < firstAttempt + WINDOW_MS: a call before firstAttempt + WINDOW_MS adds
\* one to the count of the window, and a call at firstAttempt + WINDOW_MS or
\* later starts a new window with attempts=1.
C21_WindowCount ==
    last.op = "recordFailedAttempt" =>
        /\ ~HasEntry(last.pre, last.ip) =>
            /\ PostEntry.attempts = 1
            /\ PostEntry.firstAttempt = last.at
        /\ (/\ HasEntry(last.pre, last.ip)
            /\ last.at < PreEntry.firstAttempt + WINDOW_MS) =>
                /\ PostEntry.attempts = PreEntry.attempts + 1
                /\ PostEntry.firstAttempt = PreEntry.firstAttempt
        /\ (/\ HasEntry(last.pre, last.ip)
            /\ last.at >= PreEntry.firstAttempt + WINDOW_MS) =>
                /\ PostEntry.attempts = 1
                /\ PostEntry.firstAttempt = last.at
        /\ (/\ streak[last.ip].n > 0
            /\ last.at < streak[last.ip].start + WINDOW_MS) =>
                PostEntry.attempts = streak[last.ip].n

(***************************************************************************)
(* The failures of one address over time                                   *)
(***************************************************************************)
\* the clock runs over the first MaxFine + 1 milliseconds of all windows but
\* the last of MaxWindows
WindowInstants ==
    {w * WINDOW_MS + f : w \in 0..(MaxWindows - 1), f \in 0..(MaxFine + 1)}

\* the last n elements of a sequence, or all of them when there are fewer
LastN(seq, n) ==
    IF Len(seq) <= n THEN seq ELSE SubSeq(seq, Len(seq) - n + 1, Len(seq))

\* recordFailedAttempt, with the time of the call appended to the failures
\* of the address
Failure(ip) ==
    /\ HasEntry(rateLimits, ip) => FindEntry(rateLimits, ip).attempts < MaxBurst
    /\ rateLimits' = RecordFailedData(rateLimits, ip, now)
    /\ last' = [op |-> "recordFailedAttempt", ip |-> ip, at |-> now,
                ret |-> RecordFailedRet(rateLimits, ip, now),
                pre |-> rateLimits]
    /\ failures' = [failures EXCEPT
                        ![ip] = LastN(Append(@, now), MAX_ATTEMPTS)]
    /\ UNCHANGED <<now, users, sessions, streak, blockT, expired>>
    /\ UNCHANGED <<files, revoked, shadow, procs>>

\* recordSuccessfulLogin, which ends the run of failures of the address
Success(ip) ==
    /\ rateLimits' = RecordSuccessData(rateLimits, ip)
    /\ last' = [op |-> "recordSuccessfulLogin", ip |-> ip, at |-> now,
                pre |-> rateLimits]
    /\ failures' = [failures EXCEPT ![ip] = <<>>]
    /\ UNCHANGED <<now, users, sessions, streak, blockT, expired>>
    /\ UNCHANGED <<files, revoked, shadow, procs>>

\* time passes; failures a whole window old can share no span of WINDOW_MS
\* with a later one and are forgotten
WindowTick ==
    /\ \E t \in WindowInstants : t > now /\ now' = t
    /\ last' = NoCall
    /\ failures' = [a \in IPs |->
                      SelectSeq(failures[a],
                                LAMBDA t : now' - t < WINDOW_MS)]
    /\ UNCHANGED <<rateLimits, users, sessions, streak, blockT, expired>>
    /\ UNCHANGED <<files, revoked, shadow, procs>>

WindowNext ==
    \/ Failure(Subject)
    \/ Success(Subject)
    \/ WindowTick

WindowSpec == Init /\ [][WindowNext]_vars

\* C22: whenever MAX_ATTEMPTS failures of one address are recorded within a
\* span of less than WINDOW_MS, with no recordSuccessfulLogin of the address
\* in between, the call that records the last of them returns blocked = true
C22_SlidingWindow ==
    (/\ last.op = "recordFailedAttempt"
     /\ Len(failures[last.ip]) = MAX_ATTEMPTS
     /\ last.at - failures[last.ip][1] < WINDOW_MS) =>
        last.ret.blocked

(***************************************************************************)
(* The shape of the stored entries                                         *)
(***************************************************************************)
Tracking(e) ==
    /\ ~HasBlock(e)
    /\ 1 <= e.attempts
    /\ e.attempts <= MAX_ATTEMPTS - 1

Blocked(e) ==
    /\ HasBlock(e)
    /\ e.attempts >= MAX_ATTEMPTS
    /\ e.blockedUntil = e.lastAttempt + BLOCK_DURATION_MS

\* C23: every stored entry is Tracking (no blockedUntil, between 1 and
\* MAX_ATTEMPTS - 1 attempts) or Blocked (blockedUntil present and equal to
\* lastAttempt + BLOCK_DURATION_MS, at least MAX_ATTEMPTS attempts), with
\* firstAttempt <= lastAttempt; and recordFailedAttempt never returns
\* blocked = false with no attempts left
C23_EntryShape ==
    /\ \A i \in 1..Len(rateLimits) :
        /\ Tracking(rateLimits[i]) \/ Blocked(rateLimits[i])
        /\ rateLimits[i].firstAttempt <= rateLimits[i].lastAttempt
    /\ (last.op = "recordFailedAttempt" /\ ~last.ret.blocked) =>
            last.ret.attemptsLeft >= 1

\* recordFailedAttempt has just extended a block that began at an earlier
\* time, next to the entry of an address that is still tracked
C23_Witness ==
    /\ last.op = "recordFailedAttempt"
    /\ HasEntry(last.pre, last.ip)
    /\ HasBlock(PreEntry)
    /\ PreEntry.lastAttempt < last.at
    /\ Blocked(PostEntry)
    /\ PostEntry.attempts > MAX_ATTEMPTS
    /\ \E i \in 1..Len(rateLimits) : Tracking(rateLimits[i])

(***************************************************************************)
(* Requests in flight at once                                              *)
(*                                                                         *)
(* Every operation of the limiter is a read of the whole of               *)
(* rate-limits.json followed by a write of the whole of it, with no lock   *)
(* on the file.  Requests served by different server processes over the    *)
(* same data directory take these two steps in any order: the read and     *)
(* the write of one call are two steps here, and the steps of the calls    *)
(* of Procs interleave.  A call that takes both steps in a row is the      *)
(* call of the sections above.                                             *)
(***************************************************************************)
\* the clock is at 0 or MaxWindows windows later
RaceInstants == {0, MaxWindows * WINDOW_MS}

\* the operations that name an address
AddressOps == {"recordFailedAttempt", "recordSuccessfulLogin", "isBlocked"}

\* The requests are alike as well: the second is the one that starts while
\* the first is in flight.  A call that another call has overtaken (it read
\* before, and has yet to write after, the other's write) returns before
\* the next call starts: what it writes then is one write out of date.
MayStart(p) ==
    /\ procs[p] = Idle
    /\ p = "p2" => procs["p1"] # Idle
    /\ \A q \in Procs : procs[q] # Idle => ~procs[q].overtaken

\* what a call in flight makes of the collection it read
CallData(call) ==
    CASE call.op = "recordFailedAttempt" ->
            RecordFailedData(call.data, call.ip, call.at)
      [] call.op = "recordSuccessfulLogin" ->
            RecordSuccessData(call.data, call.ip)
      [] call.op = "isBlocked" ->
            IsBlockedData(call.data, call.ip, call.at)
      [] call.op = "cleanupOldEntries" ->
            CleanupData(call.data, call.at)
      [] call.op = "getRateLimitInfo" -> call.data

\* what the call returns; nothing (undefined) is modelled by Null
CallRet(call) ==
    CASE call.op = "recordFailedAttempt" ->
            RecordFailedRet(call.data, call.ip, call.at)
      [] call.op = "isBlocked" ->
            IsBlockedRet(call.data, call.ip, call.at)
      [] call.op = "getRateLimitInfo" ->
            GetRateLimitInfoRet(call.data, call.ip, call.at)
      [] OTHER -> Null

\* whether the call reaches writeRateLimitData: recordFailedAttempt and
\* recordSuccessfulLogin always do, isBlocked when it drops an expired block,
\* cleanupOldEntries when it drops an entry
CallWrites(call) ==
    \/ call.op \in {"recordFailedAttempt", "recordSuccessfulLogin"}
    \/ CallData(call) # call.data

\* readRateLimitData() and new Date() of a call to op(ip)
ReadStep(p, op, ip) ==
    /\ MayStart(p)
    /\ (op = "recordFailedAttempt" /\ HasEntry(rateLimits, ip)) =>
            FindEntry(rateLimits, ip).attempts < MaxBurst
    /\ procs' = [procs EXCEPT ![p] = [op |-> op, ip |-> ip, at |-> now,
                                      data |-> rateLimits, during |-> {},
                                      overtaken |-> FALSE]]
    /\ last' = NoCall
    /\ UNCHANGED <<now, rateLimits, users, sessions, streak, blockT, expired>>
    /\ UNCHANGED <<files, revoked, failures, shadow>>

\* readRateLimitData() and new Date() of a call to cleanupOldEntries()
ReadStepCleanup(p) ==
    /\ MayStart(p)
    /\ procs' = [procs EXCEPT ![p] = [op |-> "cleanupOldEntries", at |-> now,
                                      data |-> rateLimits, during |-> {},
                                      overtaken |-> FALSE]]
    /\ last' = NoCall
    /\ UNCHANGED <<now, rateLimits, users, sessions, streak, blockT, expired>>
    /\ UNCHANGED <<files, revoked, failures, shadow>>

\* the rest of the call: writeRateLimitData(...) where the call reaches it,
\* and the return.  The calls still in flight note the address of a
\* recordFailedAttempt that returned meanwhile (history).
WriteStep(p) ==
    /\ procs[p] # Idle
    /\ rateLimits' = IF CallWrites(procs[p])
                      THEN CallData(procs[p])
                      ELSE rateLimits
    /\ last' = procs[p] @@ [pre |-> rateLimits, ret |-> CallRet(procs[p])]
    /\ procs' = [q \in Procs |->
                    IF q = p \/ procs[q] = Idle
                    THEN Idle
                    ELSE IF procs[p].op = "recordFailedAttempt"
                         THEN [procs[q] EXCEPT
                                    !.during = @ \cup {procs[p].ip},
                                    !.overtaken = TRUE]
                         ELSE [procs[q] EXCEPT !.overtaken = TRUE]]
    /\ UNCHANGED <<now, users, sessions, streak, blockT, expired>>
    /\ UNCHANGED <<files, revoked, failures, shadow>>

\* time passes
RaceTick ==
    /\ \E t \in RaceInstants : t > now /\ now' = t
    /\ last' = NoCall
    /\ UNCHANGED <<rateLimits, users, sessions, streak, blockT, expired>>
    /\ UNCHANGED <<files, revoked, failures, shadow, procs>>

RaceNext ==
    \/ \E p \in Procs, op \in AddressOps, ip \in IPs : ReadStep(p, op, ip)
    \/ \E p \in Procs : ReadStepCleanup(p)
    \/ \E p \in Procs : WriteStep(p)
    \/ RaceTick

RaceSpec == Init /\ [][RaceNext]_vars

\* the entry that the last call read for its address
ReadEntry == FindEntry(last.data, last.ip)

\* C24: after any sequence of limiter operations, also with the read and
\* write steps of two calls interleaved, the stored collection has at most
\* one entry per address
C24_OneEntryPerAddress ==
    \A i, j \in 1..Len(rateLimits) :
        rateLimits[i].ip = rateLimits[j].ip => i = j

\* a call has written a collection that another call's write had made out
\* of date, and there is an entry for each address
C24_Witness ==
    /\ last.op \in AddressOps
    /\ last.overtaken
    /\ last.data # last.pre
    /\ \A ip \in IPs : HasEntry(rateLimits, ip)

\* C25: a recordFailedAttempt stores and reports the count it read plus one,
\* whatever has been written since it read: two concurrent calls for one
\* address that both read attempts = MAX_ATTEMPTS - 1 both store
\* MAX_ATTEMPTS, and the stored count is lower than the failures recorded
C25_LostUpdate ==
    (/\ last.op = "recordFailedAttempt"
     /\ HasEntry(last.data, last.ip)
     /\ ReadEntry.firstAttempt >= last.at - WINDOW_MS) =>
        /\ HasEntry(rateLimits, last.ip)
        /\ PostEntry.attempts = ReadEntry.attempts + 1
        /\ PostEntry.attempts >= MAX_ATTEMPTS <=> last.ret.blocked

\* both calls read attempts = MAX_ATTEMPTS - 1, the other has stored
\* MAX_ATTEMPTS and returned, and this one has stored MAX_ATTEMPTS again
C25_Witness ==
    /\ last.op = "recordFailedAttempt"
    /\ last.ip \in last.during
    /\ HasEntry(last.data, last.ip)
    /\ ReadEntry.attempts = MAX_ATTEMPTS - 1
    /\ HasEntry(last.pre, last.ip)
    /\ PreEntry.attempts = MAX_ATTEMPTS
    /\ PostEntry.attempts = MAX_ATTEMPTS

\* the entry of address a in data, or Null when there is none
EntryOrNull(data, a) == IF HasEntry(data, a) THEN FindEntry(data, a) ELSE Null

\* C28: when a call for another address, or cleanupOldEntries, returns after
\* a recordFailedAttempt(A) that returned while it was in flight, the entry
\* of A is what it was before the call wrote: the increment or block of A
\* is not lost
C28_OtherAddressKeepsFailure ==
    \A a \in IPs :
        (/\ last.op \in AddressOps \cup {"cleanupOldEntries"}
         /\ a \in last.during
         /\ last.op \in AddressOps => last.ip # a) =>
            EntryOrNull(rateLimits, a) = EntryOrNull(last.pre, a)

(***************************************************************************)
(* Logins in flight at once                                                *)
(*                                                                         *)
(* createSession reads sessions.json, pushes the new record and writes     *)
(* the whole collection back, with no lock on the file; as with the        *)
(* limiter, its read and its write are two steps.                          *)
(***************************************************************************)
\* getSessions() of createSession(userId, token), and the clock it reads
CreateSessionRead(p, userId, token) ==
    /\ MayStart(p)
    /\ Len(sessions) < MaxSessions
    /\ procs' = [procs EXCEPT ![p] = [op |-> "createSession",
                                      userId |-> userId, token |-> token,
                                      at |-> now, data |-> sessions,
                                      overtaken |-> FALSE]]
    /\ last' = NoCall
    /\ UNCHANGED <<now, rateLimits, users, sessions, streak, blockT, expired>>
    /\ UNCHANGED <<files, revoked, failures, shadow>>

\* sessions.push(newSession) and writeJsonFile(SESSIONS_FILE, sessions)
CreateSessionWrite(p, r) ==
    /\ procs[p] # Idle
    /\ sessions' = CreateSessionData(procs[p].data, procs[p].userId,
                                     procs[p].token, procs[p].at, r)
    /\ last' = procs[p] @@ [pre |-> sessions, ret |-> TRUE]
    /\ procs' = [q \in Procs |->
                    IF q = p \/ procs[q] = Idle
                    THEN Idle
                    ELSE [procs[q] EXCEPT !.overtaken = TRUE]]
    /\ UNCHANGED <<now, rateLimits, users, streak, blockT, expired>>
    /\ UNCHANGED <<files, revoked, failures, shadow>>

LoginRaceNext ==
    \/ \E p \in Procs, i \in 1..Len(users) :
            CreateSessionRead(p, users[i].id,
                              GenerateToken(users[i].id, users[i].username,
                                            now))
    \/ \E p \in Procs, r \in 0..MaxRand : CreateSessionWrite(p, r)
    \/ UserTick

LoginRaceSpec == AuthInit /\ [][LoginRaceNext]_vars

\* the tokens of the session records of data
TokensOf(data) == {data[i].token : i \in 1..Len(data)}

\* C26: when two concurrent createSession calls for different tokens have
\* both returned, the session records of both are in the persisted
\* collection: the write of the second keeps the record of the first
C26_SessionsAdditive ==
    (/\ last.op = "createSession"
     /\ last.overtaken
     /\ \A p \in Procs : procs[p] = Idle) =>
        TokensOf(last.pre) \subseteq TokensOf(sessions)

(***************************************************************************)
(* Permissions                                                             *)
(***************************************************************************)
\* getCurrentUser: checkAuth with its default requiredRole, 'admin'
GetCurrentUserRet(usersData, sessionsData, cookie, t) ==
    LET authResult == CheckAuthRet(usersData, sessionsData, cookie, "admin", t)
    IN  IF authResult.authenticated THEN authResult.user ELSE Null

\* rolePermissions[user.role] || []
RolePermissions(role) ==
    CASE role = "admin" ->
            {"read", "write", "delete", "manage_users", "manage_settings"}
      [] role = "editor" -> {"read", "write"}
      [] role = "viewer" -> {"read"}
      [] OTHER -> {}

HasPermissionRet(usersData, sessionsData, cookie, permission, t) ==
    LET user == GetCurrentUserRet(usersData, sessionsData, cookie, t)
    IN  IF user = Null
        THEN FALSE
        ELSE permission \in RolePermissions(user.role)

HasPermission(cookie, permission) ==
    /\ sessions' = CheckAuthData(sessions, cookie, now)
    /\ last' = [op |-> "hasPermission", token |-> cookie,
                permission |-> permission, at |-> now, pre |-> sessions,
                ret |-> HasPermissionRet(users, sessions, cookie, permission,
                                         now)]
    /\ revoked' = revoked
    /\ UNCHANGED <<now, rateLimits, users, streak, blockT, expired, files>>
    /\ UNCHANGED <<failures, shadow, procs>>

\* the permissions asked for: those of the table and one it does not have
Permissions ==
    {"read", "write", "delete", "manage_users", "manage_settings", "publish"}

\* the store with a user of each role of the table
PermissionInit ==
    /\ now = 0
    /\ rateLimits = <<>>
    /\ users = CreateUserData(
                   CreateUserData(
                       CreateUserData(<<>>, "admin", DefaultHash, "admin",
                                      0, 0),
                       "editor1", "$2a$12$A", "editor", 0, 1),
                   "viewer1", "$2a$12$B", "viewer", 0, 2)
    /\ sessions = <<>>
    /\ last = NoCall
    /\ streak = [ip \in IPs |-> NoStreak]
    /\ blockT = [ip \in IPs |-> 0]
    /\ expired = {}
    /\ files = InitialFiles
    /\ revoked = {}
    /\ failures = [ip \in IPs |-> <<>>]
    /\ shadow = <<>>
    /\ procs = [p \in Procs |-> Idle]

PermissionNext ==
    \/ \E id \in Identities :
            /\ Len(sessions) < MaxSessions
            /\ now = 0
            /\ Login(id[1], id[2])
    \/ \E cookie \in Cookies, permission \in Permissions :
            HasPermission(cookie, permission)
    \/ AuthTick

PermissionSpec == PermissionInit /\ [][PermissionNext]_vars

\* the user that the session of the last request belongs to: the cookie is
\* a token that verifies, a session is stored for it and has not expired,
\* and a user with the token's userId is stored
SessionUsers ==
    IF \/ last.token = NoCookie
       \/ VerifyTokenRet(last.token, last.at) = Null
       \/ GetSessionByTokenRet(last.pre, last.token, last.at) = Null
    THEN {}
    ELSE {u \in 1..Len(users) : users[u].id = last.token.userId}

\* C27: hasPermission(context, p) is true exactly when the session of the
\* request belongs to a stored user whose role grants p, where admin grants
\* read, write, delete, manage_users and manage_settings, editor grants
\* read and write, and viewer grants read
C27_RoleTable ==
    last.op = "hasPermission" =>
        (last.ret <=>
            \E u \in SessionUsers :
                last.permission \in RolePermissions(users[u].role))

(***************************************************************************)
(* The limiter with and without cleanupOldEntries                          *)
(*                                                                         *)
(* The calls of a run are applied to rate-limits.json, where calls of      *)
(* cleanupOldEntries come in between, and to a second collection that      *)
(* sees the same calls at the same times but for those of                  *)
(* cleanupOldEntries.                                                      *)
(***************************************************************************)
CallOf(op, ip, data) == [op |-> op, ip |-> ip, at |-> now, data |-> data]

\* A call that is made in both runs.  One address is followed through the
\* run; the others fail to log in at time 0, and their entries are then
\* there to be kept or dropped.
BothRuns(op, ip) ==
    /\ op = "recordFailedAttempt" =>
        /\ HasEntry(rateLimits, ip) =>
                FindEntry(rateLimits, ip).attempts < MaxBurst
        /\ HasEntry(shadow, ip) => FindEntry(shadow, ip).attempts < MaxBurst
    /\ rateLimits' = CallData(CallOf(op, ip, rateLimits))
    /\ shadow' = CallData(CallOf(op, ip, shadow))
    /\ last' = [op |-> op, ip |-> ip, at |-> now, pre |-> rateLimits,
                ret |-> CallRet(CallOf(op, ip, rateLimits)),
                shadowPre |-> shadow,
                shadowRet |-> CallRet(CallOf(op, ip, shadow))]
    /\ UNCHANGED <<now, users, sessions, streak, blockT, expired>>
    /\ UNCHANGED <<files, revoked, failures, procs>>

\* a call of cleanupOldEntries, which the second run does not have
CleanupInserted ==
    /\ rateLimits' = CleanupData(rateLimits, now)
    /\ last' = [op |-> "cleanupOldEntries", at |-> now, pre |-> rateLimits]
    /\ UNCHANGED <<now, users, sessions, streak, blockT, expired>>
    /\ UNCHANGED <<files, revoked, failures, shadow, procs>>

\* time passes
ShadowTick ==
    /\ \E t \in LimiterInstants : t > now /\ now' = t
    /\ last' = NoCall
    /\ UNCHANGED <<rateLimits, users, sessions, streak, blockT, expired>>
    /\ UNCHANGED <<files, revoked, failures, shadow, procs>>

ShadowNext ==
    \/ \E op \in AddressOps \cup {"getRateLimitInfo"} : BothRuns(op, Subject)
    \/ \E ip \in IPs \ {Subject} :
            /\ now = 0
            /\ BothRuns("recordFailedAttempt", ip)
    \/ CleanupInserted
    \/ ShadowTick

ShadowSpec == Init /\ [][ShadowNext]_vars

\* C29: cleanupOldEntries is transparent: with calls of it inserted anywhere
\* in a sequence of isBlocked, recordFailedAttempt, recordSuccessfulLogin
\* and getRateLimitInfo calls, each of these returns what it returns in the
\* sequence without them
C29_CleanupTransparent ==
    last.op \in AddressOps \cup {"getRateLimitInfo"} =>
        last.ret = last.shadowRet

\* a call has returned for an address whose entry a cleanupOldEntries had
\* removed, and that still had an entry in the run without it
C29_Witness ==
    /\ last.op \in {"recordFailedAttempt", "getRateLimitInfo", "isBlocked"}
    /\ ~HasEntry(last.pre, last.ip)
    /\ HasEntry(last.shadowPre, last.ip)

(***************************************************************************)
(* The three views of a block                                              *)
(***************************************************************************)
\* the calls that report on a block, as the failures of one address are
\* recorded and time passes
ViewNext ==
    \/ RecordFailedAttempt(Subject)
    \/ IsBlocked(Subject)
    \/ GetRateLimitInfo(Subject)
    \/ GetRateLimitStats
    \/ LimiterTick

ViewSpec == Init /\ [][ViewNext]_vars

\* the rows of getRateLimitStats() for the address
StatsRowsOf(ip) ==
    {i \in 1..Len(rateLimits) : rateLimits[i].ip = ip}

\* C30: whenever isBlocked(ip) would return blocked = true,
\* getRateLimitInfo(ip) reports attempts >= MAX_ATTEMPTS and
\* attemptsLeft = 0, and getRateLimitStats() reports blocked = true and
\* attempts >= MAX_ATTEMPTS for the address
C30_ViewsAgree ==
    \A ip \in IPs :
        IsBlockedRet(rateLimits, ip, now).blocked =>
            /\ GetRateLimitInfoRet(rateLimits, ip, now).attempts
                    >= MAX_ATTEMPTS
            /\ GetRateLimitInfoRet(rateLimits, ip, now).attemptsLeft = 0
            /\ StatsRowsOf(ip) # {}
            /\ \A i \in StatsRowsOf(ip) :
                /\ GetRateLimitStatsRet(rateLimits, now)[i].blocked
                /\ GetRateLimitStatsRet(rateLimits, now)[i].attempts
                        >= MAX_ATTEMPTS

====
